---- MODULE Spec2Model ----
(***************************************************************************)
(* A model of slok/goresilience: the execution contract (Command,          *)
(* RunnerFunc, runner chains) and the circuit breaker with its sliding     *)
(* bucketed window.                                                        *)
(*                                                                         *)
(* Time is counted in abstract units; a duration is a number of units.     *)
(* A float64 error rate errs/total is kept as the pair [errs, total]; the  *)
(* pair with total = 0 is the NaN that 0/0 gives, and every comparison     *)
(* with it is false, as in IEEE 754. For the small integers of the model   *)
(* the comparison of two correctly rounded quotients agrees with the       *)
(* comparison of the exact fractions, so a/b >= c/d is a*d >= c*b.         *)
(***************************************************************************)
EXTENDS Integers, Sequences, FiniteSets, TLC

VARIABLES
    cfg,            \* circuitbreaker.cfg, after Config.defaults()
    state,          \* circuitbreaker.state
    stateStarted,   \* circuitbreaker.stateStarted
    recorder,       \* circuitbreaker.recorder, a bucketWindow
    now,            \* the wall clock read by time.Now()
    crashed,        \* the process died on a run-time panic
    last,           \* what the last completed Run call did (observation)
    op,             \* the name of the last step taken (observation)
    aged,           \* samples since the last reset, by rotations survived (observation)
    forgot,         \* a success was replaced by a rotation since the last reset (observation)
    pc,             \* position of each concurrent caller inside Run
    loc,            \* local variables of each concurrent caller
    ch,             \* a runner chain and the Run call in progress on it
    aimd,           \* the AIMD limiter: its config after defaults() and its limit
    sample,         \* what the last MeasureSample call did (observation)
    cl,             \* the concurrency-limit runner and its callers
    wp,             \* a worker pool and the jobs offered to it
    fx,             \* a FIFO executor, its callers and its worker pool
    lx,             \* a LIFO or adaptive LIFO+CoDel executor: dynamic queue, pumper, worker pool
    bh,             \* a bulkhead runner, its workers and its callers
    rt,             \* a retry runner and the Run call in progress on it
    tm,             \* a timeout runner and the Run call in progress on it
    fb              \* a fallback runner and the Run call in progress on it

cbVars == <<cfg, state, stateStarted, recorder, now, crashed>>
obsVars == <<last, op, aged, forgot>>
procVars == <<pc, loc>>
limVars == <<aimd, sample, cl>>
execVars == <<wp, fx, lx>>
runVars == <<bh, rt, tm, fb>>
vars == <<cfg, state, stateStarted, recorder, now, crashed, last, op, aged, forgot, pc, loc, ch,
          aimd, sample, cl, wp, fx, lx, bh, rt, tm, fb>>

---------------------------------------------------------------------------
(* Bounds of the model. *)

\* Run is not taken when the window would hold more than MinimumRequestToOpen
\* plus this many samples.
MaxExtra == 1
\* The clock stops advancing at this value.
MaxTime == 3
\* Number of concurrent callers in the interleaved specification.
NumProcs == 2

\* The longest list of middlewares handed to RunnerChain.
MaxChain == 3

Procs == 1..NumProcs

---------------------------------------------------------------------------
(* Components that a specification does not construct keep this value. *)

NotBuilt == "none"

\* No limiter and no concurrency-limit runner was constructed.
LimiterIdle == aimd = NotBuilt /\ sample = NotBuilt /\ cl = NotBuilt

\* No executor was constructed.
ExecIdle == wp = NotBuilt /\ fx = NotBuilt /\ lx = NotBuilt

\* No bulkhead, retry, timeout or fallback runner was constructed.
RunnersIdle == bh = NotBuilt /\ rt = NotBuilt /\ tm = NotBuilt /\ fb = NotBuilt

---------------------------------------------------------------------------
(* Errors and states. *)

Nil == "nil"
ErrWanted == "wanted error"
ErrCircuitOpen == "circuit open"
ErrContextCanceled == "context canceled"

stateOpen == "open"
stateHalfOpen == "halfopen"
stateClosed == "closed"

CtxLive == "live"
CtxCancelled == "cancelled"

\* The results f can give, and the contexts a caller can pass.
FuncResults == {Nil, ErrWanted}
Contexts == {CtxLive, CtxCancelled}

---------------------------------------------------------------------------
(* Config. *)

defaults(c) ==
    [ErrorPercentThresholdToOpen |->
        IF c.ErrorPercentThresholdToOpen = 0 THEN 50 ELSE c.ErrorPercentThresholdToOpen,
     MinimumRequestToOpen |->
        IF c.MinimumRequestToOpen = 0 THEN 20 ELSE c.MinimumRequestToOpen,
     SuccessfulRequiredOnHalfOpen |->
        IF c.SuccessfulRequiredOnHalfOpen = 0 THEN 1 ELSE c.SuccessfulRequiredOnHalfOpen,
     WaitDurationInOpenState |->
        IF c.WaitDurationInOpenState = 0 THEN 5 ELSE c.WaitDurationInOpenState,
     MetricsSlidingWindowBucketQuantity |->
        IF c.MetricsSlidingWindowBucketQuantity = 0 THEN 10 ELSE c.MetricsSlidingWindowBucketQuantity,
     MetricsBucketDuration |->
        IF c.MetricsBucketDuration = 0 THEN 1 ELSE c.MetricsBucketDuration]

\* The configurations handed to New.
Configs ==
    [ErrorPercentThresholdToOpen : {50},
     MinimumRequestToOpen : {2},
     SuccessfulRequiredOnHalfOpen : {0, 2},
     WaitDurationInOpenState : {1},
     MetricsSlidingWindowBucketQuantity : {1, 2, 3},
     MetricsBucketDuration : {0, 1}]
    \cup
    [ErrorPercentThresholdToOpen : {30},
     MinimumRequestToOpen : {10},
     SuccessfulRequiredOnHalfOpen : {1},
     WaitDurationInOpenState : {1},
     MetricsSlidingWindowBucketQuantity : {2},
     MetricsBucketDuration : {1}]

\* The configurations of the interleaved specification.
ConfigsConc ==
    [ErrorPercentThresholdToOpen : {50},
     MinimumRequestToOpen : {2},
     SuccessfulRequiredOnHalfOpen : {1},
     WaitDurationInOpenState : {1},
     MetricsSlidingWindowBucketQuantity : {2},
     MetricsBucketDuration : {1}]

---------------------------------------------------------------------------
(* bucketWindow: the sliding window recorder. *)

emptyBucket == [total |-> 0, errs |-> 0]

reset(b) ==
    [b EXCEPT !.window = [i \in 0..(b.windowSize - 1) |-> emptyBucket],
              !.currentBucket = 0,
              !.nextIndexToReplace = 1]

newBucketWindow(bucketQuantity) ==
    reset([windowSize |-> IF bucketQuantity = 0 THEN 1 ELSE bucketQuantity,
           window |-> [i \in {} |-> emptyBucket],
           currentBucket |-> 0,
           nextIndexToReplace |-> 0])

\* The index expression b.window[b.nextIndexToReplace] is in range.
sliderInRange(b) == b.nextIndexToReplace \in DOMAIN b.window

\* windowSlider moving to the next bucket without replacing it.
windowSliderKeeps(b) ==
    LET i == b.nextIndexToReplace
        n == i + 1
    IN [b EXCEPT !.currentBucket = i,
                 !.nextIndexToReplace = IF n >= b.windowSize THEN 0 ELSE n]

\* One tick of windowSlider.
windowSlider(b) ==
    LET i == b.nextIndexToReplace
        n == i + 1
    IN [b EXCEPT !.window[i] = emptyBucket,
                 !.currentBucket = i,
                 !.nextIndexToReplace = IF n >= b.windowSize THEN 0 ELSE n]

\* inc counting the sample in every bucket of the ring.
incEveryBucket(b, err) ==
    [b EXCEPT !.window = [i \in DOMAIN b.window |->
        [total |-> b.window[i].total + 1,
         errs |-> IF err # Nil THEN b.window[i].errs + 1 ELSE b.window[i].errs]]]

inc(b, err) ==
    [b EXCEPT !.window[b.currentBucket] =
        [total |-> @.total + 1,
         errs |-> IF err # Nil THEN @.errs + 1 ELSE @.errs]]

RECURSIVE sumTotal(_, _)
sumTotal(w, i) == IF i < 0 THEN 0 ELSE w[i].total + sumTotal(w, i - 1)

RECURSIVE sumErrs(_, _)
sumErrs(w, i) == IF i < 0 THEN 0 ELSE w[i].errs + sumErrs(w, i - 1)

totalRequests(b) == sumTotal(b.window, b.windowSize - 1)

\* errs / total as a fraction; NaN when total = 0.
errorRate(b) ==
    [errs |-> sumErrs(b.window, b.windowSize - 1),
     total |-> sumTotal(b.window, b.windowSize - 1)]

\* rate <= 0 in float64.
rateLeqZero(rate) == rate.total > 0 /\ rate.errs <= 0

\* rate >= num/100 in float64.
rateGeqPercent(rate, num) == rate.total > 0 /\ rate.errs * 100 >= num * rate.total

---------------------------------------------------------------------------
(* The execution contract. *)

\* Command.Run without the context check.
CommandRunUnchecked(ctx, f) == [err |-> f, called |-> TRUE]

\* Command.Run: the identity runner. The result and whether f was invoked.
CommandRun(ctx, f) ==
    IF ctx = CtxCancelled
    THEN [err |-> ErrContextCanceled, called |-> FALSE]
    ELSE [err |-> f, called |-> TRUE]

\* A runner is the list of the runners it is made of, outermost first; the nil
\* runner is the empty list.
nilRunner == <<>>
Command == <<[kind |-> "Command", id |-> 0]>>

\* Sanitize: a nil inner runner is the identity runner.
Sanitize(r) == IF r = nilRunner THEN Command ELSE r

---------------------------------------------------------------------------
(* circuitbreaker: operations on the value [state, stateStarted, recorder]. *)

CB == [state |-> state, stateStarted |-> stateStarted, recorder |-> recorder]

getState(c) == c.state

sinceStateStart(c, t) == t - c.stateStarted

\* moveState leaving the recorded metrics in place.
moveStateKeepsMetrics(c, st, t) ==
    IF c.state # st
    THEN [state |-> st, stateStarted |-> t, recorder |-> c.recorder]
    ELSE c

moveState(c, st, t) ==
    IF c.state # st
    THEN [state |-> st, stateStarted |-> t, recorder |-> reset(c.recorder)]
    ELSE c

\* The time decision with >= for >.
waitElapsedInclusive(since) == since >= cfg.WaitDurationInOpenState

\* The time decision of preDecideState.
waitElapsed(since) == since > cfg.WaitDurationInOpenState

preDecideState(c, t) ==
    IF getState(c) = stateOpen /\ waitElapsed(sinceStateStart(c, t))
    THEN moveState(c, stateHalfOpen, t)
    ELSE c

\* The half-open decisions of postDecideState.
halfOpenEvaluates(total) == total >= cfg.SuccessfulRequiredOnHalfOpen

\* The half-open target decided on the absence of a NaN only.
halfOpenTargetAlwaysCloses(rate) == IF rate.total > 0 THEN stateClosed ELSE stateOpen

halfOpenTarget(rate) == IF rateLeqZero(rate) THEN stateClosed ELSE stateOpen

\* The closed decision without the minimum of requests.
closedTripsOnRateOnly(total, rate) == rateGeqPercent(rate, cfg.MinimumRequestToOpen)

\* The closed decision of postDecideState.
closedTrips(total, rate) ==
    total >= cfg.MinimumRequestToOpen /\ rateGeqPercent(rate, cfg.MinimumRequestToOpen)

postDecideState(c, t) ==
    CASE getState(c) = stateHalfOpen ->
            IF halfOpenEvaluates(totalRequests(c.recorder))
            THEN moveState(c, halfOpenTarget(errorRate(c.recorder)), t)
            ELSE c
      [] getState(c) = stateClosed ->
            IF closedTrips(totalRequests(c.recorder), errorRate(c.recorder))
            THEN moveState(c, stateOpen, t)
            ELSE c
      [] OTHER -> c

\* execute: reject in open state, delegate to the inner runner otherwise.
execute(c, ctx, f) ==
    IF getState(c) = stateOpen
    THEN [err |-> ErrCircuitOpen, called |-> FALSE, delegated |-> FALSE]
    ELSE [err |-> CommandRun(ctx, f).err,
          called |-> CommandRun(ctx, f).called,
          delegated |-> TRUE]

---------------------------------------------------------------------------
(* Observations. *)

NoRun ==
    [ctx |-> "none", f |-> "none", err |-> "none", called |-> FALSE, delegated |-> FALSE,
     waited |-> "none",
     stPre |-> "none", stExec |-> "none", stPost |-> "none",
     preTotal |-> 0, preErrs |-> 0, preStartedNow |-> FALSE,
     total |-> 0, errs |-> 0, forgot |-> FALSE, hoErr |-> FALSE, hoCalls |-> 0]

\* aged[k]: the samples recorded since the last reset that k rotations have
\* followed, for k < windowSize.
noSamples(n) == [k \in 0..(n - 1) |-> emptyBucket]

agedInc(a, err) ==
    [a EXCEPT ![0] = [total |-> @.total + 1,
                      errs |-> IF err # Nil THEN @.errs + 1 ELSE @.errs]]

agedSlide(a, n) == [k \in 0..(n - 1) |-> IF k = 0 THEN emptyBucket ELSE a[k - 1]]

NoChain ==
    [stack |-> nilRunner, ctx |-> "none", f |-> "none", depth |-> 0, phase |-> "idle",
     entered |-> <<>>, wrapped |-> <<>>, cmdCtx |-> "none", fcount |-> 0, err |-> "none"]

IdleProcs == [p \in Procs |-> "idle"]
NoLocals ==
    [p \in Procs |->
        [ctx |-> "none", f |-> "none", st |-> "none",
         err |-> "none", total |-> 0, target |-> "none", exec |-> "none"]]

---------------------------------------------------------------------------
(* The circuit breaker with one caller: every Run call is one step. *)

\* last.hoCalls: the calls that have run to completion in the current half-open
\* state, counted up to SuccessfulRequiredOnHalfOpen.

\* NewMiddleware(cfg)(nil)
New(c) ==
    /\ cfg = defaults(c)
    /\ state = stateClosed
    /\ recorder = newBucketWindow(cfg.MetricsSlidingWindowBucketQuantity)
    /\ stateStarted = now
    /\ crashed = FALSE

InitBreaker ==
    /\ now = 0
    /\ \E c \in Configs : New(c)
    /\ last = NoRun
    /\ op = "New"
    /\ aged = noSamples(cfg.MetricsSlidingWindowBucketQuantity)
    /\ forgot = FALSE
    /\ pc = IdleProcs
    /\ loc = NoLocals
    /\ ch = NoChain
    /\ LimiterIdle
    /\ ExecIdle
    /\ RunnersIdle

\* circuitbreaker.Run(ctx, f)
Run(ctx, f) ==
    LET c0 == CB
        c1 == preDecideState(c0, now)
        r == execute(c1, ctx, f)
        c2 == [c1 EXCEPT !.recorder = inc(@, r.err)]
        c3 == postDecideState(c2, now)
        n == cfg.MetricsSlidingWindowBucketQuantity
    IN /\ ~crashed
       /\ totalRequests(c2.recorder) <= cfg.MinimumRequestToOpen + MaxExtra
       /\ state' = c3.state
       /\ stateStarted' = c3.stateStarted
       /\ recorder' = c3.recorder
       /\ last' = [ctx |-> ctx, f |-> f, err |-> r.err, called |-> r.called,
                   delegated |-> r.delegated,
                   waited |-> IF sinceStateStart(c0, now) <= cfg.WaitDurationInOpenState
                              THEN "within the wait"
                              ELSE IF sinceStateStart(c0, now) = cfg.WaitDurationInOpenState + 1
                              THEN "just over the wait" ELSE "over the wait",
                   stPre |-> c0.state, stExec |-> c1.state, stPost |-> c3.state,
                   preTotal |-> totalRequests(c1.recorder),
                   preErrs |-> errorRate(c1.recorder).errs,
                   preStartedNow |-> (c1.stateStarted = now),
                   total |-> totalRequests(c2.recorder),
                   errs |-> errorRate(c2.recorder).errs,
                   forgot |-> (forgot /\ c1.state = c0.state),
                   hoErr |-> FALSE,
                   hoCalls |-> IF c1.state # stateHalfOpen THEN 0
                               ELSE IF c0.state # stateHalfOpen THEN 1
                               ELSE IF last.hoCalls < cfg.SuccessfulRequiredOnHalfOpen
                               THEN last.hoCalls + 1 ELSE last.hoCalls]
       /\ op' = "Run"
       /\ aged' = IF c3.state # c2.state THEN noSamples(n)
                  ELSE IF c1.state # c0.state THEN agedInc(noSamples(n), r.err)
                  ELSE agedInc(aged, r.err)
       /\ forgot' = IF c3.state # c0.state \/ c1.state # c0.state THEN FALSE ELSE forgot
       /\ UNCHANGED <<cfg, now, crashed, pc, loc, ch, limVars, execVars, runVars>>

\* One tick of the windowSlider goroutine; the index out of range panics.
Slide ==
    /\ ~crashed
    /\ cfg.MetricsBucketDuration # 0
    /\ IF sliderInRange(recorder)
       THEN /\ recorder' = windowSlider(recorder)
            /\ crashed' = FALSE
            /\ aged' = agedSlide(aged, cfg.MetricsSlidingWindowBucketQuantity)
            /\ forgot' = (forgot \/ recorder.window[recorder.nextIndexToReplace].total
                                       > recorder.window[recorder.nextIndexToReplace].errs)
       ELSE /\ crashed' = TRUE
            /\ UNCHANGED <<recorder, aged, forgot>>
    /\ op' = "Slide"
    /\ UNCHANGED <<cfg, state, stateStarted, now, last, pc, loc, ch, limVars, execVars, runVars>>

\* The clock advances.
Tick ==
    /\ ~crashed
    /\ now < MaxTime
    /\ now' = now + 1
    /\ op' = "Tick"
    /\ UNCHANGED <<cfg, state, stateStarted, recorder, crashed, last, aged, forgot, pc, loc, ch, limVars, execVars, runVars>>

NextBreaker ==
    \/ \E ctx \in Contexts, f \in FuncResults : Run(ctx, f)
    \/ Slide
    \/ Tick

SpecBreaker == InitBreaker /\ [][NextBreaker]_vars

---------------------------------------------------------------------------
(* The circuit breaker with concurrent callers: every lock-protected        *)
(* operation of Run is one step. moveState holds the breaker's lock over    *)
(* the reset of the recorder; the recorder operations that can run in       *)
(* between commute with it, so it is one step.                              *)

InitBreakerConc ==
    /\ now = 0
    /\ \E c \in ConfigsConc : New(c)
    /\ last = NoRun
    /\ op = "New"
    /\ aged = noSamples(cfg.MetricsSlidingWindowBucketQuantity)
    /\ forgot = FALSE
    /\ pc = IdleProcs
    /\ loc = NoLocals
    /\ ch = NoChain
    /\ LimiterIdle
    /\ ExecIdle
    /\ RunnersIdle

\* The callers that have not recorded their outcome yet.
Unrecorded == {q \in Procs : pc[q] \in {"preGet", "preSince", "preMove", "execGet", "run", "inc"}}

\* The calls in flight after a moveState: what execute read is now an earlier
\* state.
earlier(l, c) ==
    IF c.state # state
    THEN [q \in Procs |->
            IF l[q].exec \in {stateClosed, stateHalfOpen}
            THEN [l[q] EXCEPT !.exec = "earlier"] ELSE l[q]]
    ELSE l

\* last.hoErr: the window holds, since the breaker became half-open, the error
\* of a call that execute delegated in this half-open state.
setBreaker(c) ==
    /\ state' = c.state
    /\ stateStarted' = c.stateStarted
    /\ recorder' = c.recorder
    /\ last' = IF c.state # state THEN [last EXCEPT !.hoErr = FALSE] ELSE last
    /\ aged' = IF c.state # state THEN noSamples(cfg.MetricsSlidingWindowBucketQuantity) ELSE aged
    /\ forgot' = IF c.state # state THEN FALSE ELSE forgot

\* A caller enters Run(ctx, f).
Call(p, ctx, f) ==
    /\ ~crashed
    /\ pc[p] = "idle"
    /\ totalRequests(recorder) + Cardinality(Unrecorded) <= cfg.MinimumRequestToOpen + MaxExtra
    /\ loc' = [loc EXCEPT ![p] = [NoLocals[p] EXCEPT !.ctx = ctx, !.f = f]]
    /\ pc' = [pc EXCEPT ![p] = "preGet"]
    /\ op' = "Run"
    /\ UNCHANGED <<cfg, state, stateStarted, recorder, now, crashed, last, aged, forgot, ch, limVars, execVars, runVars>>

\* preDecideState: state := c.getState()
PreGet(p) ==
    /\ ~crashed
    /\ pc[p] = "preGet"
    /\ pc' = [pc EXCEPT ![p] = IF getState(CB) = stateOpen THEN "preSince" ELSE "execGet"]
    /\ op' = "Run"
    /\ UNCHANGED <<cfg, state, stateStarted, recorder, now, crashed, last, aged, forgot, loc, ch, limVars, execVars, runVars>>

\* preDecideState: c.sinceStateStart() > c.cfg.WaitDurationInOpenState
PreSince(p) ==
    /\ ~crashed
    /\ pc[p] = "preSince"
    /\ pc' = [pc EXCEPT ![p] = IF waitElapsed(sinceStateStart(CB, now)) THEN "preMove" ELSE "execGet"]
    /\ op' = "Run"
    /\ UNCHANGED <<cfg, state, stateStarted, recorder, now, crashed, last, aged, forgot, loc, ch, limVars, execVars, runVars>>

\* preDecideState: c.moveState(stateHalfOpen)
PreMove(p) ==
    /\ ~crashed
    /\ pc[p] = "preMove"
    /\ setBreaker(moveState(CB, stateHalfOpen, now))
    /\ pc' = [pc EXCEPT ![p] = "execGet"]
    /\ loc' = earlier(loc, moveState(CB, stateHalfOpen, now))
    /\ op' = "Run"
    /\ UNCHANGED <<cfg, now, crashed, ch, limVars, execVars, runVars>>

\* execute: state := c.getState(); in open state return ErrCircuitOpen
ExecGet(p) ==
    /\ ~crashed
    /\ pc[p] = "execGet"
    /\ loc' = [loc EXCEPT ![p].st = "none",
                          ![p].exec = IF getState(CB) = stateOpen THEN "rejected" ELSE getState(CB),
                          ![p].err = IF getState(CB) = stateOpen THEN ErrCircuitOpen ELSE "none",
                          ![p].ctx = IF getState(CB) = stateOpen THEN "none" ELSE @,
                          ![p].f = IF getState(CB) = stateOpen THEN "none" ELSE @]
    /\ pc' = [pc EXCEPT ![p] = IF getState(CB) = stateOpen THEN "inc" ELSE "run"]
    /\ op' = "Run"
    /\ UNCHANGED <<cfg, state, stateStarted, recorder, now, crashed, last, aged, forgot, ch, limVars, execVars, runVars>>

\* execute: c.runner.Run(ctx, f), the identity runner; f is invoked when ctx is live.
RunInner(p) ==
    /\ ~crashed
    /\ pc[p] = "run"
    /\ loc' = [loc EXCEPT ![p].err = CommandRun(loc[p].ctx, loc[p].f).err,
                          ![p].ctx = "none", ![p].f = "none"]
    /\ pc' = [pc EXCEPT ![p] = "inc"]
    /\ op' = "Run"
    /\ UNCHANGED <<cfg, state, stateStarted, recorder, now, crashed, last, aged, forgot, ch, limVars, execVars, runVars>>

\* c.recorder.inc(err)
Inc(p) ==
    /\ ~crashed
    /\ pc[p] = "inc"
    /\ recorder' = inc(recorder, loc[p].err)
    /\ aged' = agedInc(aged, loc[p].err)
    /\ last' = [last EXCEPT !.hoErr = @ \/ (state = stateHalfOpen /\ loc[p].err # Nil
                                             /\ loc[p].exec = stateHalfOpen)]
    /\ pc' = [pc EXCEPT ![p] = "postGet"]
    /\ op' = "Run"
    /\ UNCHANGED <<cfg, state, stateStarted, now, crashed, forgot, loc, ch, limVars, execVars, runVars>>

\* postDecideState: state := c.getState()
PostGet(p) ==
    /\ ~crashed
    /\ pc[p] = "postGet"
    /\ loc' = [loc EXCEPT ![p] = IF getState(CB) \in {stateHalfOpen, stateClosed}
                                  THEN [NoLocals[p] EXCEPT !.st = getState(CB)]
                                  ELSE NoLocals[p]]
    /\ pc' = [pc EXCEPT ![p] = IF getState(CB) \in {stateHalfOpen, stateClosed}
                                THEN "postTotal" ELSE "idle"]
    /\ op' = "Run"
    /\ UNCHANGED <<cfg, state, stateStarted, recorder, now, crashed, last, aged, forgot, ch, limVars, execVars, runVars>>

\* postDecideState: c.recorder.totalRequests() >= ...
PostTotal(p) ==
    /\ ~crashed
    /\ pc[p] = "postTotal"
    /\ LET returns == loc[p].st = stateHalfOpen /\ ~halfOpenEvaluates(totalRequests(recorder))
       IN /\ loc' = [loc EXCEPT ![p] = IF returns THEN NoLocals[p]
                                        ELSE [@ EXCEPT !.total = totalRequests(recorder)]]
          /\ pc' = [pc EXCEPT ![p] = IF returns THEN "idle" ELSE "postRate"]
    /\ op' = "Run"
    /\ UNCHANGED <<cfg, state, stateStarted, recorder, now, crashed, last, aged, forgot, ch, limVars, execVars, runVars>>

\* postDecideState: c.recorder.errorRate() and the decision taken on it. In
\* closed state the rate is read after the total (the && reads it only when
\* the total suffices; the read has no effect).
PostRate(p) ==
    /\ ~crashed
    /\ pc[p] = "postRate"
    /\ LET rate == errorRate(recorder)
           moves == \/ loc[p].st = stateHalfOpen
                    \/ closedTrips(loc[p].total, rate)
           target == IF loc[p].st = stateHalfOpen THEN halfOpenTarget(rate) ELSE stateOpen
       IN /\ loc' = [loc EXCEPT ![p] = IF moves THEN [NoLocals[p] EXCEPT !.target = target]
                                        ELSE NoLocals[p]]
          /\ pc' = [pc EXCEPT ![p] = IF moves THEN "postMove" ELSE "idle"]
    /\ op' = "Run"
    /\ UNCHANGED <<cfg, state, stateStarted, recorder, now, crashed, last, aged, forgot, ch, limVars, execVars, runVars>>

\* postDecideState: c.moveState(state)
PostMove(p) ==
    /\ ~crashed
    /\ pc[p] = "postMove"
    /\ setBreaker(moveState(CB, loc[p].target, now))
    /\ pc' = [pc EXCEPT ![p] = "idle"]
    /\ loc' = [earlier(loc, moveState(CB, loc[p].target, now)) EXCEPT ![p] = NoLocals[p]]
    /\ op' = "Run"
    /\ UNCHANGED <<cfg, now, crashed, ch, limVars, execVars, runVars>>

NextBreakerConc ==
    \/ \E p \in Procs, ctx \in Contexts, f \in FuncResults : Call(p, ctx, f)
    \/ \E p \in Procs : PreGet(p)
    \/ \E p \in Procs : PreSince(p)
    \/ \E p \in Procs : PreMove(p)
    \/ \E p \in Procs : ExecGet(p)
    \/ \E p \in Procs : RunInner(p)
    \/ \E p \in Procs : Inc(p)
    \/ \E p \in Procs : PostGet(p)
    \/ \E p \in Procs : PostTotal(p)
    \/ \E p \in Procs : PostRate(p)
    \/ \E p \in Procs : PostMove(p)
    \/ Slide
    \/ Tick

SpecBreakerConc == InitBreakerConc /\ [][NextBreakerConc]_vars

---------------------------------------------------------------------------
(* Runner chains: a Run call goes down the chain one runner at a time.      *)

\* The pass-through middlewares: the spy of the chain test, a struct runner,
\* and a middleware made with the RunnerFunc helper.
MiddlewareKinds == {"spy", "func"}

\* The lists of middlewares M1..Mn, each with its position in the list.
Middlewares ==
    UNION {[1..n -> MiddlewareKinds] : n \in 0..MaxChain}

\* newSpyMiddleware: spy.next = next
newSpyMiddleware(id, next) == <<[kind |-> "spy", id |-> id]>> \o next

\* A middleware returning a RunnerFunc that runs the sanitized next runner.
newFuncMiddleware(id, next) == <<[kind |-> "func", id |-> id]>> \o Sanitize(next)

applyMiddleware(kind, id, next) ==
    IF kind = "spy" THEN newSpyMiddleware(id, next) ELSE newFuncMiddleware(id, next)

\* RunnerChain(M1, .., Mn) = M1(M2(..Mn(identity)..)), built from the innermost.
RECURSIVE wrapFrom(_, _)
wrapFrom(ms, i) ==
    IF i > Len(ms) THEN Command ELSE applyMiddleware(ms[i], i, wrapFrom(ms, i + 1))

RunnerChain(ms) == wrapFrom(ms, 1)

\* A spy that records the call and returns without running the next runner.
spyRunReturns(c) ==
    [c EXCEPT !.entered = Append(@, [id |-> c.stack[c.depth].id, ctx |-> c.ctx]),
              !.err = Nil,
              !.phase = "done"]

\* spy.Run: s.called = true; return s.next.Run(ctx, f)
spyRun(c) ==
    [c EXCEPT !.entered = Append(@, [id |-> c.stack[c.depth].id, ctx |-> c.ctx]),
              !.depth = @ + 1]

\* RunnerFunc.Run: the context check, then the wrapped function, which runs
\* the next runner.
RunnerFuncRun(c) ==
    IF c.ctx = CtxCancelled
    THEN [c EXCEPT !.entered = Append(@, [id |-> c.stack[c.depth].id, ctx |-> c.ctx]),
                   !.err = ErrContextCanceled,
                   !.phase = "done"]
    ELSE [c EXCEPT !.entered = Append(@, [id |-> c.stack[c.depth].id, ctx |-> c.ctx]),
                   !.wrapped = Append(@, c.stack[c.depth].id),
                   !.depth = @ + 1]

\* Command.Run at the end of the chain; its result goes back up unchanged.
commandRunStep(c) ==
    [c EXCEPT !.cmdCtx = c.ctx,
              !.fcount = @ + (IF CommandRun(c.ctx, c.f).called THEN 1 ELSE 0),
              !.err = CommandRun(c.ctx, c.f).err,
              !.phase = "done"]

InitChain ==
    /\ now = 0
    /\ cfg = defaults(CHOOSE c \in ConfigsConc : TRUE)
    /\ state = stateClosed
    /\ recorder = newBucketWindow(cfg.MetricsSlidingWindowBucketQuantity)
    /\ stateStarted = 0
    /\ crashed = FALSE
    /\ last = NoRun
    /\ op = "New"
    /\ aged = noSamples(cfg.MetricsSlidingWindowBucketQuantity)
    /\ forgot = FALSE
    /\ pc = IdleProcs
    /\ loc = NoLocals
    /\ ch = NoChain
    /\ LimiterIdle
    /\ ExecIdle
    /\ RunnersIdle

\* runner := RunnerChain(ms...); runner.Run(ctx, f)
ChainRun(ms, ctx, f) ==
    /\ ch.phase \in {"idle", "done"}
    /\ ch' = [NoChain EXCEPT !.stack = RunnerChain(ms), !.ctx = ctx, !.f = f,
                             !.depth = 1, !.phase = "down"]
    /\ UNCHANGED <<cfg, state, stateStarted, recorder, now, crashed, last, op, aged, forgot, pc, loc, limVars, execVars, runVars>>

\* The Run method of the runner the call has reached.
EnterRunner ==
    /\ ch.phase = "down"
    /\ ch' = CASE ch.stack[ch.depth].kind = "spy" -> spyRun(ch)
               [] ch.stack[ch.depth].kind = "func" -> RunnerFuncRun(ch)
               [] OTHER -> commandRunStep(ch)
    /\ UNCHANGED <<cfg, state, stateStarted, recorder, now, crashed, last, op, aged, forgot, pc, loc, limVars, execVars, runVars>>

\* The caller cancels the context while the call is in progress.
CancelCtx ==
    /\ ch.phase = "down"
    /\ ch.ctx = CtxLive
    /\ ch' = [ch EXCEPT !.ctx = CtxCancelled]
    /\ UNCHANGED <<cfg, state, stateStarted, recorder, now, crashed, last, op, aged, forgot, pc, loc, limVars, execVars, runVars>>

NextChain ==
    \/ \E ms \in Middlewares, ctx \in Contexts, f \in FuncResults : ChainRun(ms, ctx, f)
    \/ EnterRunner
    \/ CancelCtx

SpecChain == InitChain /\ [][NextChain]_vars

---------------------------------------------------------------------------
(* Claims about the circuit breaker with one caller (SpecBreaker). *)

\* The result of the inner runner for the inputs of the last Run.
InnerResult(l) == IF l.ctx = CtxCancelled THEN ErrContextCanceled ELSE l.f

C3_ThresholdDecides ==
    last.stExec = stateClosed =>
        (last.stPost = stateOpen) <=>
            /\ last.total >= cfg.MinimumRequestToOpen
            /\ last.errs * 100 > cfg.ErrorPercentThresholdToOpen * last.total

C5_LazyHalfOpen ==
    [][ /\ (state = stateOpen /\ (state' # stateOpen \/ stateStarted' # stateStarted)) =>
              /\ op' = "Run"
              /\ now - stateStarted > cfg.WaitDurationInOpenState
              /\ last'.stExec = stateHalfOpen
        /\ (op' = "Run" /\ state = stateOpen /\ now - stateStarted > cfg.WaitDurationInOpenState) =>
              /\ last'.stExec = stateHalfOpen
              /\ last'.delegated
              /\ last'.err = InnerResult(last')
        /\ (op' = "Run" /\ state = stateOpen /\ now - stateStarted <= cfg.WaitDurationInOpenState) =>
              /\ last'.err = ErrCircuitOpen
              /\ ~last'.delegated
              /\ ~last'.called
              /\ state' = stateOpen
              /\ stateStarted' = stateStarted
      ]_vars

\* A failing call made the open to half-open transition and got f's error back.
C5_Witness ==
    /\ op = "Run"
    /\ last.stPre = stateOpen
    /\ last.stExec = stateHalfOpen
    /\ last.waited = "just over the wait"
    /\ last.called
    /\ last.err = ErrWanted

\* C6: after every state transition the sliding window is empty and
\* stateStarted is the time of the transition.
C6_TransitionResets ==
    [][ op' = "Run" =>
          /\ last'.stExec # last'.stPre =>
                /\ last'.preTotal = 0
                /\ last'.preErrs = 0
                /\ last'.preStartedNow
          /\ last'.stPost # last'.stExec =>
                /\ \A i \in DOMAIN recorder'.window : recorder'.window[i] = emptyBucket
                /\ stateStarted' = now
      ]_vars

\* A Run call made two transitions: open to half-open, then half-open to closed.
C6_Witness ==
    /\ op = "Run"
    /\ last.stPre = stateOpen
    /\ last.stExec = stateHalfOpen
    /\ last.stPost = stateClosed
    /\ last.waited = "over the wait"

RECURSIVE agedTotal(_, _)
agedTotal(a, k) == IF k < 0 THEN 0 ELSE a[k].total + agedTotal(a, k - 1)

RECURSIVE agedErrs(_, _)
agedErrs(a, k) == IF k < 0 THEN 0 ELSE a[k].errs + agedErrs(a, k - 1)

\* C7: without a reset, a recorded sample counts in totalRequests and errorRate
\* until N rotations have followed it, and never after that.
C7_WindowForgets ==
    LET n == cfg.MetricsSlidingWindowBucketQuantity
    IN /\ totalRequests(recorder) = agedTotal(aged, n - 1)
       /\ errorRate(recorder).errs = agedErrs(aged, n - 1)
       /\ errorRate(recorder).total = agedTotal(aged, n - 1)

\* Successes were forgotten, and the failures that followed opened the circuit.
C7_Witness ==
    /\ op = "Run"
    /\ last.forgot
    /\ last.stExec = stateClosed
    /\ last.stPost = stateOpen
    /\ last.errs = last.total
    /\ last.total = cfg.MinimumRequestToOpen

\* C8: a Run call with an already-cancelled ctx returns context-cancelled and
\* never invokes f.
C8_CancelledIsReported ==
    last.ctx = CtxCancelled => (last.err = ErrContextCanceled /\ ~last.called)

---------------------------------------------------------------------------
(* Claims about the circuit breaker with concurrent callers (SpecBreakerConc). *)

\* C1: no invocation of f starts while the breaker's state is open, in every
\* interleaving of concurrent Run calls.
C1_NoInvocationWhileOpen ==
    [][ \A p \in Procs :
          (pc[p] = "run" /\ pc'[p] = "inc" /\ CommandRun(loc[p].ctx, loc[p].f).called)
              => state # stateOpen
      ]_vars

---------------------------------------------------------------------------
(* Claims about the execution contract and runner chains (SpecChain). *)

\* The ids of the runners entered, in order.
enteredIds == [i \in 1..Len(ch.entered) |-> ch.entered[i].id]

\* The number of middlewares of the chain.
chainLen == Len(ch.stack) - 1

\* C9: Command.Run and every RunnerFunc check the context first: entered with a
\* cancelled ctx they return ErrContextCanceled without calling f (the wrapped
\* function); with a live ctx Command.Run returns exactly f(ctx).
C9_ContextCheckedFirst ==
    /\ ch.cmdCtx = CtxCancelled => (ch.fcount = 0 /\ ch.err = ErrContextCanceled)
    /\ ch.cmdCtx = CtxLive => (ch.fcount = 1 /\ ch.err = ch.f)
    /\ ch.cmdCtx = "none" => ch.fcount = 0
    /\ \A i \in 1..Len(ch.entered) :
          ch.stack[i].kind = "func" =>
              IF ch.entered[i].ctx = CtxCancelled
              THEN /\ \A j \in 1..Len(ch.wrapped) : ch.wrapped[j] # ch.entered[i].id
                   /\ i = Len(ch.entered)
                   /\ ch.phase = "done"
                   /\ ch.err = ErrContextCanceled
                   /\ ch.fcount = 0
              ELSE \E j \in 1..Len(ch.wrapped) : ch.wrapped[j] = ch.entered[i].id

\* A call went through a live RunnerFunc, was cancelled, and reached Command.Run.
C9_Witness ==
    /\ ch.phase = "done"
    /\ Len(ch.wrapped) > 0
    /\ ch.cmdCtx = CtxCancelled
    /\ ch.f = Nil
    /\ ch.err = ErrContextCanceled

\* C10: one Run on RunnerChain(M1..Mn) with a live context enters every
\* middleware's runner exactly once, M1 first and Mn last, then invokes f once
\* through the identity runner, and returns f's result.
C10_ChainOrder ==
    (ch.phase = "done" /\ ch.ctx = CtxLive) =>
        /\ enteredIds = [i \in 1..chainLen |-> i]
        /\ ch.cmdCtx = CtxLive
        /\ ch.fcount = 1
        /\ ch.err = ch.f

\* A chain of MaxChain middlewares of both kinds returned f's error.
C10_Witness ==
    /\ ch.phase = "done"
    /\ ch.ctx = CtxLive
    /\ chainLen = MaxChain
    /\ \E i, j \in 1..chainLen : ch.stack[i].kind = "spy" /\ ch.stack[j].kind = "func"
    /\ ch.err = ErrWanted

---------------------------------------------------------------------------
(* limit: the AIMD limiter.                                                *)
(* The float64 limit is kept as the exact fraction [n, d] in lowest terms; *)
(* int(x) truncates. Durations are counted in seconds.                     *)

\* The longest sequence of MeasureSample calls on one limiter.
MaxSamples == 4
\* The longest time between startTime and the MeasureSample call.
MaxElapsed == 3
\* MeasureSample is not taken on a limit whose denominator is above this.
MaxDen == 30

\* The circuit breaker and the runner chain are not constructed.
BreakerIdle ==
    /\ cfg = NotBuilt /\ state = NotBuilt /\ stateStarted = NotBuilt
    /\ recorder = NotBuilt /\ now = 0 /\ crashed = FALSE
    /\ last = NotBuilt /\ op = NotBuilt /\ aged = NotBuilt /\ forgot = FALSE
    /\ pc = NotBuilt /\ loc = NotBuilt /\ ch = NotBuilt

baseVars == <<cfg, state, stateStarted, recorder, now, crashed, last, op, aged, forgot, pc, loc, ch>>

ResultSuccess == "success"
ResultFailure == "failure"
ResultIgnore == "ignore"
Results == {ResultSuccess, ResultFailure, ResultIgnore}

RECURSIVE gcd(_, _)
gcd(a, b) == IF b = 0 THEN a ELSE gcd(b, a % b)

\* A float64 value n/d.
Rat(n, d) == [n |-> n \div gcd(n, d), d |-> d \div gcd(n, d)]
\* float64(i)
float64(i) == Rat(i, 1)
\* int(x), for x >= 0
int(x) == x.n \div x.d
ratMul(x, y) == Rat(x.n * y.n, x.d * y.d)
ratAdd(x, y) == Rat(x.n * y.d + y.n * x.d, x.d * y.d)
ratLeq(x, y) == x.n * y.d <= y.n * x.d
ratLt(x, y) == x.n * y.d < y.n * x.d

\* AIMDConfig.defaults()
AIMDdefaults(c) ==
    [MinimumLimit |-> IF c.MinimumLimit = 0 THEN 10 ELSE c.MinimumLimit,
     SlowStartThreshold |-> c.SlowStartThreshold,
     RTTTimeout |-> IF c.RTTTimeout = 0 THEN 2 ELSE c.RTTTimeout,
     BackoffRatio |-> IF ratLt(c.BackoffRatio, Rat(5, 10)) \/ ratLt(Rat(1, 1), c.BackoffRatio)
                      THEN Rat(9, 10) ELSE c.BackoffRatio,
     LimitIncrementInflightFactor |-> IF c.LimitIncrementInflightFactor = 0 THEN 1
                                      ELSE c.LimitIncrementInflightFactor]

\* The configurations handed to NewAIMD: unset fields (0), the tests' values,
\* and backoff ratios inside and outside [0.5, 1].
AIMDConfigs ==
    [MinimumLimit : {1, 3}, SlowStartThreshold : {0, 2}, RTTTimeout : {1},
     BackoffRatio : {Rat(6, 10), Rat(1, 1)}, LimitIncrementInflightFactor : {0, 2}]
    \cup
    [MinimumLimit : {0, 1}, SlowStartThreshold : {1}, RTTTimeout : {0},
     BackoffRatio : {Rat(0, 1), Rat(1, 2), Rat(3, 10), Rat(2, 1)},
     LimitIncrementInflightFactor : {2}]

\* The inflight counts handed to MeasureSample.
Inflights == {0, 1, 3, 5, 11, 30}

\* NewAIMD
NewAIMD(c) == [cfg |-> AIMDdefaults(c), limit |-> float64(AIMDdefaults(c).MinimumLimit)]

\* decreaseLimit without the clamp to the minimum limit.
decreaseLimitUnclamped(a) == [a EXCEPT !.limit = ratMul(a.limit, a.cfg.BackoffRatio)]

\* aimd.decreaseLimit; the value returned is int(limit).
decreaseLimit(a) ==
    LET l == ratMul(a.limit, a.cfg.BackoffRatio)
        min == float64(a.cfg.MinimumLimit)
    IN [a EXCEPT !.limit = IF ratLeq(l, min) THEN min ELSE l]

\* increaseLimit that ignores the slow start threshold.
increaseLimitAlwaysOne(a) == [a EXCEPT !.limit = ratAdd(a.limit, float64(1))]

\* aimd.increaseLimit; the value returned is int(limit).
increaseLimit(a) ==
    IF int(a.limit) < a.cfg.SlowStartThreshold \/ a.cfg.SlowStartThreshold = 0
    THEN [a EXCEPT !.limit = ratAdd(a.limit, float64(1))]
    ELSE [a EXCEPT !.limit = ratAdd(a.limit, Rat(a.limit.d, a.limit.n))]

\* MeasureSample that treats a failure as a success.
MeasureSampleFailureGrows(a, elapsed, infights, result) ==
    IF result = ResultIgnore THEN [a |-> a, ret |-> int(a.limit)]
    ELSE [a |-> increaseLimit(a), ret |-> int(increaseLimit(a).limit)]

\* aimd.MeasureSample(startTime, infights, result), called elapsed seconds
\* after startTime: the limiter afterwards and the value returned.
MeasureSample(a, elapsed, infights, result) ==
    LET currentLimit == int(a.limit) IN
    CASE result = ResultSuccess /\ elapsed > a.cfg.RTTTimeout ->
             [a |-> decreaseLimit(a), ret |-> int(decreaseLimit(a).limit)]
      [] result = ResultSuccess /\ elapsed <= a.cfg.RTTTimeout
            /\ infights > currentLimit * a.cfg.LimitIncrementInflightFactor ->
             [a |-> increaseLimit(a), ret |-> int(increaseLimit(a).limit)]
      [] result = ResultFailure ->
             [a |-> decreaseLimit(a), ret |-> int(decreaseLimit(a).limit)]
      [] OTHER -> [a |-> a, ret |-> currentLimit]

\* aimd.GetLimit
GetLimit(a) == int(a.limit)

\* No MeasureSample call was made yet.
NoSample == [count |-> 0, result |-> "none", elapsed |-> 0, infights |-> 0,
             before |-> float64(0), ret |-> 0]

InitAIMD ==
    /\ BreakerIdle
    /\ RunnersIdle
    /\ ExecIdle
    /\ cl = NotBuilt
    /\ \E c \in AIMDConfigs : aimd = NewAIMD(c)
    /\ sample = NoSample

\* One call of MeasureSample on the limiter.
Measure(elapsed, infights, result) ==
    /\ sample.count < MaxSamples
    /\ aimd.limit.d <= MaxDen
    /\ aimd' = MeasureSample(aimd, elapsed, infights, result).a
    /\ sample' = [count |-> sample.count + 1, result |-> result, elapsed |-> elapsed,
                  infights |-> infights, before |-> aimd.limit,
                  ret |-> MeasureSample(aimd, elapsed, infights, result).ret]
    /\ UNCHANGED <<baseVars, cl, execVars, runVars>>

NextAIMD ==
    \E elapsed \in 0..MaxElapsed, infights \in Inflights, result \in Results :
        Measure(elapsed, infights, result)

SpecAIMD == InitAIMD /\ [][NextAIMD]_vars

---------------------------------------------------------------------------
(* Claims about the AIMD limiter (SpecAIMD). *)

minLimit == float64(aimd.cfg.MinimumLimit)

\* limit * backoffRatio, and the larger of it and the minimum limit.
backedOff(l) == ratMul(l, aimd.cfg.BackoffRatio)
maxWithMin(l) == IF ratLeq(minLimit, l) THEN l ELSE minLimit

\* C11: the limit starts at the minimum limit and is at least the minimum limit
\* after every MeasureSample call, whatever the samples; so is the value
\* the call returns and the value GetLimit reads.
C11_LimitAtLeastMinimum ==
    /\ sample.count = 0 => aimd.limit = minLimit
    /\ ratLeq(minLimit, aimd.limit)
    /\ GetLimit(aimd) >= aimd.cfg.MinimumLimit
    /\ sample.count > 0 => sample.ret >= aimd.cfg.MinimumLimit

\* A failure on a limit above the minimum whose backed-off value is below the
\* minimum left the limit at the minimum.
C11_Witness ==
    /\ sample.count >= 3
    /\ sample.result = ResultFailure
    /\ ratLt(minLimit, sample.before)
    /\ ratLt(backedOff(sample.before), minLimit)
    /\ aimd.limit = minLimit

grown(l) ==
    IF ratLt(l, float64(aimd.cfg.SlowStartThreshold)) \/ aimd.cfg.SlowStartThreshold = 0
    THEN ratAdd(l, float64(1))
    ELSE ratAdd(l, Rat(l.d, l.n))

\* C13 as stated: on a success sample, past the RTT timeout the limit becomes
\* max(limit * backoffRatio, minLimit); otherwise it grows (by 1 in slow start,
\* by 1/limit after it) when inflight > limit * incrementInflightFactor with
\* the real-valued limit, and is unchanged otherwise.
C13_SuccessRule ==
    sample.result = ResultSuccess =>
        aimd.limit =
            IF sample.elapsed > aimd.cfg.RTTTimeout
            THEN maxWithMin(backedOff(sample.before))
            ELSE IF sample.infights * sample.before.d
                        > sample.before.n * aimd.cfg.LimitIncrementInflightFactor
                 THEN grown(sample.before)
                 ELSE sample.before

\* C13 amended: as C13, with inflight compared with the limit truncated to an
\* integer: inflight > int(limit) * incrementInflightFactor.
C13_SuccessRuleTruncated ==
    sample.result = ResultSuccess =>
        aimd.limit =
            IF sample.elapsed > aimd.cfg.RTTTimeout
            THEN maxWithMin(backedOff(sample.before))
            ELSE IF sample.infights
                        > int(sample.before) * aimd.cfg.LimitIncrementInflightFactor
                 THEN grown(sample.before)
                 ELSE sample.before

\* A success within the RTT timeout grew a fractional limit by 1/limit although
\* inflight was not above limit * incrementInflightFactor.
C13_Witness ==
    /\ sample.result = ResultSuccess
    /\ sample.elapsed <= aimd.cfg.RTTTimeout
    /\ sample.before.d > 1
    /\ sample.infights > int(sample.before) * aimd.cfg.LimitIncrementInflightFactor
    /\ sample.infights * sample.before.d
           <= sample.before.n * aimd.cfg.LimitIncrementInflightFactor
    /\ aimd.limit = ratAdd(sample.before, Rat(sample.before.d, sample.before.n))

\* C14: on a success within the RTT timeout the limit is incremented exactly
\* when inflight * LimitIncrementInflightFactor > limit: the factor multiplies
\* the inflight count, not the limit.
C14_FactorMultipliesInflight ==
    (sample.result = ResultSuccess /\ sample.elapsed <= aimd.cfg.RTTTimeout) =>
        (ratLt(sample.before, aimd.limit)
            <=> sample.infights * aimd.cfg.LimitIncrementInflightFactor * sample.before.d
                    > sample.before.n)

---------------------------------------------------------------------------
(* concurrencylimit: the runner that glues a limiter, an executor and a    *)
(* result policy. The limiter is any Limiter: MeasureSample hands back a   *)
(* limit. The executor is any Executor: it rejects the job or runs it, and *)
(* remembers the worker quantity it was last given.                        *)

\* Number of concurrent callers of the concurrency-limit runner.
NumCallers == 2
\* Run calls started on one runner.
MaxRuns == 2

Callers == 1..NumCallers

ErrRejectedExecution == "ErrRejectedExecution"

\* The errors a result policy is applied to.
Errors == {Nil, ErrRejectedExecution, ErrWanted, ErrContextCanceled}

\* FailureOnRejectedPolicy with the two error cases exchanged.
FailureOnRejectedPolicySwapped(ctx, err) ==
    IF err = Nil THEN ResultSuccess
    ELSE IF err # Nil /\ err = ErrRejectedExecution THEN ResultIgnore
    ELSE ResultFailure

FailureOnRejectedPolicy(ctx, err) ==
    IF err = Nil THEN ResultSuccess
    ELSE IF err # Nil /\ err = ErrRejectedExecution THEN ResultFailure
    ELSE ResultIgnore

FailureOnExternalErrorPolicy(ctx, err) ==
    IF err = Nil THEN ResultSuccess
    ELSE IF err # Nil /\ err # ErrRejectedExecution THEN ResultFailure
    ELSE ResultIgnore

NoFailurePolicy(ctx, err) ==
    IF err = Nil THEN ResultSuccess ELSE ResultIgnore

\* Config.ExecutionResultPolicy; nilPolicy is the unset field.
nilPolicy == "nil"
Policies == {nilPolicy, "FailureOnExternalErrorPolicy", "NoFailurePolicy", "FailureOnRejectedPolicy"}

\* Config.defaults() on the policy field.
policyDefaults(name) == IF name = nilPolicy THEN "FailureOnRejectedPolicy" ELSE name

\* c.cfg.ExecutionResultPolicy(ctx, err)
ExecutionResultPolicy(name, ctx, err) ==
    CASE name = "FailureOnExternalErrorPolicy" -> FailureOnExternalErrorPolicy(ctx, err)
      [] name = "NoFailurePolicy" -> NoFailurePolicy(ctx, err)
      [] OTHER -> FailureOnRejectedPolicy(ctx, err)

\* Run measuring every result, ignored ones included.
afterPolicyAlwaysMeasures(result) == "measure"

\* Where Run goes after the policy: it returns on ignore, else it measures.
afterPolicy(result) == IF result = ResultIgnore THEN "idle" ELSE "measure"

\* The limits a Limiter hands back from MeasureSample and GetLimit; the runner
\* works with any Limiter.
Limits == {1, 2}

NoCallerLocals ==
    [ctx |-> "none", f |-> "none", err |-> "none", result |-> "none", cur |-> 0, limit |-> 0]

\* Nothing was observed of a Run call yet.
NoLimitRun ==
    [caller |-> 0, err |-> "none", executeErr |-> "none", result |-> "none",
     afterDec |-> 0, measured |-> 0, measuredInflight |-> 0, measuredResult |-> "none",
     measuredLimit |-> 0, set |-> 0, setTo |-> 0, setAfterMeasure |-> FALSE]

\* concurrencylimit.New(Config{Limiter: limiter, ExecutionResultPolicy: policy}):
\* cfg.Executor.SetWorkerQuantity(cfg.Limiter.GetLimit())
InitLimit ==
    /\ BreakerIdle
    /\ RunnersIdle
    /\ ExecIdle
    /\ aimd = NotBuilt
    /\ sample = NotBuilt
    /\ \E policy \in Policies, limit \in Limits :
          cl = [policy |-> policyDefaults(policy),
                inflights |-> 0, executing |-> 0,
                limit |-> limit,
                quantity |-> limit,
                runs |-> 0,
                late |-> [p \in Callers |-> "none"],
                pc |-> [p \in Callers |-> "idle"],
                loc |-> [p \in Callers |-> NoCallerLocals],
                obs |-> [p \in Callers |-> NoLimitRun]]

\* Run: currentInflights := c.inflights.Inc()
LimitStart(p, ctx, f) ==
    /\ cl.pc[p] = "idle"
    /\ cl.runs < MaxRuns
    /\ cl' = [cl EXCEPT !.inflights = @ + 1, !.runs = @ + 1,
                        !.pc[p] = "execute",
                        !.loc[p] = [NoCallerLocals EXCEPT !.ctx = ctx, !.f = f],
                        !.obs[p] = [NoLimitRun EXCEPT !.caller = p]]
    /\ UNCHANGED <<baseVars, aimd, sample, execVars, runVars>>

\* Executor.Execute refuses the job.
LimitRejected(p) ==
    /\ cl.pc[p] = "execute"
    /\ cl' = [cl EXCEPT !.pc[p] = "dec", !.loc[p].err = ErrRejectedExecution,
                        !.obs[p].executeErr = ErrRejectedExecution]
    /\ UNCHANGED <<baseVars, aimd, sample, execVars, runVars>>

\* The job starts on a worker: executing = c.executing.Inc()
LimitJobStart(p) ==
    /\ cl.pc[p] = "execute"
    /\ cl' = [cl EXCEPT !.pc[p] = "running", !.executing = @ + 1]
    /\ UNCHANGED <<baseVars, aimd, sample, execVars, runVars>>

\* The job runs c.runner.Run(ctx, f) and ends: executing = c.executing.Dec()
LimitJobEnd(p) ==
    /\ cl.pc[p] = "running"
    /\ cl' = [cl EXCEPT !.pc[p] = "dec", !.executing = @ - 1,
                        !.loc[p].err = CommandRun(cl.loc[p].ctx, cl.loc[p].f).err,
                        !.obs[p].executeErr = CommandRun(cl.loc[p].ctx, cl.loc[p].f).err]
    /\ UNCHANGED <<baseVars, aimd, sample, execVars, runVars>>

\* currentInflights = c.inflights.Dec()
LimitDec(p) ==
    /\ cl.pc[p] = "dec"
    /\ cl' = [cl EXCEPT !.pc[p] = "policy", !.inflights = @ - 1,
                        !.loc[p].cur = cl.inflights - 1,
                        !.obs[p].afterDec = cl.inflights - 1]
    /\ UNCHANGED <<baseVars, aimd, sample, execVars, runVars>>

\* result := c.cfg.ExecutionResultPolicy(ctx, err); return err on ignore.
LimitPolicy(p) ==
    LET result == ExecutionResultPolicy(cl.policy, cl.loc[p].ctx, cl.loc[p].err)
        next == afterPolicy(result)
    IN /\ cl.pc[p] = "policy"
       /\ cl' = [cl EXCEPT !.pc[p] = next,
                           !.loc[p] = IF next = "idle" THEN NoCallerLocals
                                      ELSE [@ EXCEPT !.result = result],
                           !.obs[p].result = result,
                           !.obs[p].err = IF next = "idle" THEN cl.loc[p].err ELSE @]
       /\ UNCHANGED <<baseVars, aimd, sample, execVars, runVars>>

\* limit := c.cfg.Limiter.MeasureSample(start, queuedDuration, currentInflights, result)
LimitMeasure(p, limit) ==
    /\ cl.pc[p] = "measure"
    /\ cl' = [cl EXCEPT !.pc[p] = "set",
                        !.limit = limit,
                        !.loc[p].limit = limit,
                        !.obs[p].measured = @ + 1,
                        !.obs[p].measuredInflight = cl.loc[p].cur,
                        !.obs[p].measuredResult = cl.loc[p].result,
                        !.obs[p].measuredLimit = limit]
    /\ UNCHANGED <<baseVars, aimd, sample, execVars, runVars>>

\* c.cfg.Executor.SetWorkerQuantity(limit); return err
LimitSetWorkerQuantity(p) ==
    /\ cl.pc[p] = "set"
    /\ cl' = [cl EXCEPT !.pc[p] = "idle",
                        !.quantity = cl.loc[p].limit,
                        !.loc[p] = NoCallerLocals,
                        !.obs[p].set = @ + 1,
                        !.obs[p].setTo = cl.loc[p].limit,
                        !.obs[p].setAfterMeasure = (cl.obs[p].measured = 1),
                        !.obs[p].err = cl.loc[p].err]
    /\ UNCHANGED <<baseVars, aimd, sample, execVars, runVars>>

NextLimit ==
    \/ \E p \in Callers, ctx \in Contexts, f \in FuncResults : LimitStart(p, ctx, f)
    \/ \E p \in Callers : LimitRejected(p)
    \/ \E p \in Callers : LimitJobStart(p)
    \/ \E p \in Callers : LimitJobEnd(p)
    \/ \E p \in Callers : LimitDec(p)
    \/ \E p \in Callers : LimitPolicy(p)
    \/ \E p \in Callers, limit \in Limits : LimitMeasure(p, limit)
    \/ \E p \in Callers : LimitSetWorkerQuantity(p)

SpecLimit == InitLimit /\ [][NextLimit]_vars

\* The LIFO and the adaptive executor: Execute returns rejected on its
\* timer although the job was dequeued and passed its cancel test; the job
\* function of Run still runs on the worker.
LimitRejectedLate(p) ==
    /\ cl.pc[p] = "execute"
    /\ cl.late[p] \in {"none", "ended"}
    /\ cl' = [cl EXCEPT !.pc[p] = "dec", !.loc[p].err = ErrRejectedExecution,
                        !.obs[p].executeErr = ErrRejectedExecution,
                        !.late[p] = "dequeued"]
    /\ UNCHANGED <<baseVars, aimd, sample, execVars, runVars>>

\* The job of a call that was rejected late: executing = c.executing.Inc()
LimitLateJobStart(p) ==
    /\ cl.late[p] = "dequeued"
    /\ cl' = [cl EXCEPT !.late[p] = "running", !.executing = @ + 1]
    /\ UNCHANGED <<baseVars, aimd, sample, execVars, runVars>>

\* That job ends: executing = c.executing.Dec(); nobody reads its result.
LimitLateJobEnd(p) ==
    /\ cl.late[p] = "running"
    /\ cl' = [cl EXCEPT !.late[p] = "ended", !.executing = @ - 1]
    /\ UNCHANGED <<baseVars, aimd, sample, execVars, runVars>>

NextLimitExec ==
    \/ NextLimit
    \/ \E p \in Callers : LimitRejectedLate(p)
    \/ \E p \in Callers : LimitLateJobStart(p)
    \/ \E p \in Callers : LimitLateJobEnd(p)

\* The runner on an executor with admission timeouts.
SpecLimitExec == InitLimit /\ [][NextLimitExec]_vars

\* The Run calls between their increment and their decrement of inflights.
callsInFlight == {p \in Callers : cl.pc[p] \in {"execute", "running", "dec"}}

\* C38: inflight and executing are never negative, executing never exceeds
\* inflight, inflight is the number of Run calls between their increment
\* and their decrement, and both are 0 when no call and no job is in
\* progress.
C38_Counters ==
    /\ cl.inflights >= 0
    /\ cl.executing >= 0
    /\ cl.executing <= cl.inflights
    /\ cl.inflights = Cardinality(callsInFlight)
    /\ ((\A p \in Callers : cl.pc[p] = "idle" /\ cl.late[p] \in {"none", "ended"})
           => cl.inflights = 0 /\ cl.executing = 0)

---------------------------------------------------------------------------
(* Claims about the concurrency-limit runner and the result policies       *)
(* (SpecLimit).                                                            *)

\* C15: when Run returns, the policy was applied to (ctx, err) of Execute and Run
\* returns that err; on ignore neither MeasureSample nor SetWorkerQuantity was
\* called and the returning step leaves limit and worker quantity unchanged;
\* otherwise MeasureSample was called once, with the inflight count of this
\* call's own decrement and the policy result, and then SetWorkerQuantity once,
\* with the limit MeasureSample returned.
C15_PolicyThenMeasure ==
    [][\A p \in Callers :
          (cl.pc[p] # "idle" /\ cl'.pc[p] = "idle") =>
              LET o == cl'.obs[p] IN
              /\ o.err = o.executeErr
              /\ o.result = ExecutionResultPolicy(cl.policy, cl.loc[p].ctx, o.executeErr)
              /\ IF o.result = ResultIgnore
                 THEN /\ o.measured = 0
                      /\ o.set = 0
                      /\ cl'.limit = cl.limit
                      /\ cl'.quantity = cl.quantity
                 ELSE /\ o.measured = 1
                      /\ o.measuredInflight = o.afterDec
                      /\ o.measuredResult = o.result
                      /\ o.set = 1
                      /\ o.setAfterMeasure
                      /\ o.setTo = o.measuredLimit
                      /\ cl'.quantity = o.measuredLimit]_vars

\* One caller returned after measuring a failure while another call was in
\* flight and set a new worker quantity; the other returned on ignore.
C15_Witness ==
    \E p, q \in Callers :
        /\ p # q
        /\ cl.pc[p] = "idle" /\ cl.pc[q] = "idle"
        /\ cl.obs[p].result = ResultFailure
        /\ cl.obs[p].measuredInflight = 1
        /\ cl.obs[p].set = 1
        /\ cl.obs[p].setTo = 2
        /\ cl.obs[q].caller = q
        /\ cl.obs[q].result = ResultIgnore
        /\ cl.obs[q].err = ErrWanted

\* C16: FailureOnExternalErrorPolicy maps nil to success, rejected to ignore
\* and any other error to failure; NoFailurePolicy maps nil to success and any
\* error to ignore; FailureOnRejectedPolicy maps nil to success, rejected to
\* failure and any other error to ignore.
C16_ResultPolicies ==
    \A p \in Callers :
        cl.obs[p].result # "none" =>
            LET err == cl.obs[p].executeErr
                result == cl.obs[p].result
            IN CASE cl.policy = "FailureOnExternalErrorPolicy" ->
                        /\ err = Nil => result = ResultSuccess
                        /\ err = ErrRejectedExecution => result = ResultIgnore
                        /\ err \notin {Nil, ErrRejectedExecution} => result = ResultFailure
                 [] cl.policy = "NoFailurePolicy" ->
                        /\ err = Nil => result = ResultSuccess
                        /\ err # Nil => result = ResultIgnore
                 [] cl.policy = "FailureOnRejectedPolicy" ->
                        /\ err = Nil => result = ResultSuccess
                        /\ err = ErrRejectedExecution => result = ResultFailure
                        /\ err \notin {Nil, ErrRejectedExecution} => result = ResultIgnore
                 [] OTHER -> FALSE

\* FailureOnRejectedPolicy classified a rejection as a failure and another
\* error as ignore.
C16_Witness ==
    \E p, q \in Callers :
        /\ cl.policy = "FailureOnRejectedPolicy"
        /\ cl.obs[p].executeErr = ErrRejectedExecution
        /\ cl.obs[p].result = ResultFailure
        /\ cl.obs[q].executeErr = ErrContextCanceled
        /\ cl.obs[q].result = ResultIgnore

---------------------------------------------------------------------------
(* execute: the worker pool.                                               *)
(* workerStoppers is the list of the workers whose stop channel is open,   *)
(* each with the position of its goroutine: "select" (waiting in the       *)
(* select of newWorker) or "run" (inside f()). The workers whose stop      *)
(* channel was closed and that have not returned yet are counted by        *)
(* position. A select with several ready cases takes any of them.          *)

\* The largest quantity handed to SetWorkerQuantity.
MaxWorkers == 2
\* The most senders blocked on the job channel at one time.
MaxOffered == 2

\* newWorkerPool()
newWorkerPool ==
    [workerStoppers |-> <<>>, stoppedSelect |-> 0, stoppedRun |-> 0,
     offered |-> 0, set |-> FALSE, quantity |-> 0, lastArg |-> 0]

\* How many of the first k workers are at the given position.
RECURSIVE countAt(_, _, _)
countAt(ws, k, pos) ==
    IF k = 0 THEN 0 ELSE countAt(ws, k - 1, pos) + (IF ws[k] = pos THEN 1 ELSE 0)

\* workerPool.decreaseWorkers(workers)
decreaseWorkers(w, workers) ==
    [w EXCEPT !.stoppedSelect = @ + countAt(w.workerStoppers, workers, "select"),
              !.stoppedRun = @ + countAt(w.workerStoppers, workers, "run"),
              !.workerStoppers = SubSeq(@, workers + 1, Len(@))]

\* workerPool.increaseWorkers(workers)
increaseWorkers(w, workers) ==
    [w EXCEPT !.workerStoppers = @ \o [i \in 1..workers |-> "select"]]

\* workerPool.SetWorkerQuantity(quantity), under w.mu
SetWorkerQuantity(w, quantity) ==
    IF quantity < 0 THEN w
    ELSE IF Len(w.workerStoppers) = quantity THEN w
    ELSE IF Len(w.workerStoppers) < quantity
         THEN increaseWorkers(w, quantity - Len(w.workerStoppers))
         ELSE decreaseWorkers(w, Len(w.workerStoppers) - quantity)

LimiterNotBuilt == aimd = NotBuilt /\ sample = NotBuilt /\ cl = NotBuilt

InitPool ==
    /\ BreakerIdle
    /\ RunnersIdle
    /\ LimiterNotBuilt
    /\ fx = NotBuilt /\ lx = NotBuilt
    /\ wp = newWorkerPool

\* A call of SetWorkerQuantity(quantity) from start to return.
PoolSetWorkerQuantity(quantity) ==
    LET w == SetWorkerQuantity(wp, quantity) IN
    /\ w.stoppedSelect + w.stoppedRun <= MaxWorkers
    /\ wp' = [w EXCEPT !.set = (@ \/ quantity >= 0),
                       !.quantity = IF quantity >= 0 THEN quantity ELSE @,
                       !.lastArg = quantity]
    /\ UNCHANGED <<baseVars, limVars, fx, lx, runVars>>

\* A sender blocks on w.jobQueue <- job.
PoolOffer ==
    /\ wp.offered < MaxOffered
    /\ wp' = [wp EXCEPT !.offered = @ + 1]
    /\ UNCHANGED <<baseVars, limVars, fx, lx, runVars>>

\* newWorker: case f := <-w.jobQueue
WorkerTake(i) ==
    /\ wp.workerStoppers[i] = "select"
    /\ wp.offered > 0
    /\ wp' = [wp EXCEPT !.workerStoppers[i] = "run", !.offered = @ - 1]
    /\ UNCHANGED <<baseVars, limVars, fx, lx, runVars>>

\* newWorker: f() returns
WorkerDone(i) ==
    /\ wp.workerStoppers[i] = "run"
    /\ wp' = [wp EXCEPT !.workerStoppers[i] = "select"]
    /\ UNCHANGED <<baseVars, limVars, fx, lx, runVars>>

\* newWorker of a stopped worker: case <-stopC: return
StoppedExit ==
    /\ wp.stoppedSelect > 0
    /\ wp' = [wp EXCEPT !.stoppedSelect = @ - 1]
    /\ UNCHANGED <<baseVars, limVars, fx, lx, runVars>>

\* newWorker of a stopped worker: both cases are ready and the select takes
\* case f := <-w.jobQueue
StoppedTake ==
    /\ wp.stoppedSelect > 0
    /\ wp.offered > 0
    /\ wp' = [wp EXCEPT !.stoppedSelect = @ - 1, !.stoppedRun = @ + 1, !.offered = @ - 1]
    /\ UNCHANGED <<baseVars, limVars, fx, lx, runVars>>

\* newWorker of a stopped worker: f() returns
StoppedDone ==
    /\ wp.stoppedRun > 0
    /\ wp' = [wp EXCEPT !.stoppedRun = @ - 1, !.stoppedSelect = @ + 1]
    /\ UNCHANGED <<baseVars, limVars, fx, lx, runVars>>

NextPool ==
    \/ \E quantity \in (-1)..MaxWorkers : PoolSetWorkerQuantity(quantity)
    \/ PoolOffer
    \/ \E i \in 1..Len(wp.workerStoppers) : WorkerTake(i)
    \/ \E i \in 1..Len(wp.workerStoppers) : WorkerDone(i)
    \/ StoppedExit
    \/ StoppedTake
    \/ StoppedDone

SpecPool == InitPool /\ [][NextPool]_vars

\* The workers that can still take a job from the job channel: the workers
\* whose stop channel is open and, while a sender is blocked on the channel,
\* the stopped workers that are in their select.
liveWorkers ==
    Len(wp.workerStoppers) + (IF wp.offered > 0 THEN wp.stoppedSelect ELSE 0)

\* C18: after SetWorkerQuantity(n) with n >= 0 has returned, and until the next
\* resize, the number of workers that can still take a job from the job
\* channel is n.
C18_LiveWorkersEqualQuantity ==
    wp.set => liveWorkers = wp.quantity

\* C37: a worker whose stop channel was closed by a SetWorkerQuantity call
\* that has returned never takes another job from the job channel: no step
\* moves a blocked sender's job to a stopped worker.
C37_StoppedNeverTakes ==
    [][~(wp'.offered < wp.offered /\ wp'.stoppedRun > wp.stoppedRun)]_vars

---------------------------------------------------------------------------
(* execute: the FIFO executor.                                             *)
(* The senders blocked on the unbuffered job channel are kept in the order *)
(* in which they blocked, and a receive serves the first of them.          *)

\* Execute calls on one FIFO executor.
MaxFifoJobs == 3

FifoJobs == 1..MaxFifoJobs

\* A sender that passes the senders already blocked on the channel.
blockSenderFirst(q, j) == <<j>> \o q

\* fifo.Execute: case f.jobQueue <- job, blocking behind the earlier senders.
blockSender(q, j) == Append(q, j)

removeSender(q, j) == SelectSeq(q, LAMBDA x : x # j)

idleWorker == [job |-> 0, pos |-> "select"]

\* NewFIFO(cfg); SetWorkerQuantity(quantity)
InitFifo ==
    /\ BreakerIdle
    /\ RunnersIdle
    /\ LimiterNotBuilt
    /\ wp = NotBuilt /\ lx = NotBuilt
    /\ \E quantity \in 1..MaxWorkers :
          fx = [workers |-> [i \in 1..quantity |-> idleWorker],
                jobQueue |-> <<>>,
                st |-> [j \in FifoJobs |-> "idle"],
                submitted |-> 0,
                handed |-> <<>>,
                executed |-> <<>>,
                queued |-> 0]

\* The next Execute call reaches its select and blocks on the job channel.
FifoExecute(j) ==
    /\ j = fx.submitted + 1
    /\ fx' = [fx EXCEPT !.st[j] = "sending",
                        !.submitted = j,
                        !.jobQueue = blockSender(@, j),
                        !.queued = IF \A i \in 1..Len(fx.workers) : fx.workers[i].pos # "select"
                                   THEN @ + 1 ELSE @]
    /\ UNCHANGED <<baseVars, limVars, wp, lx, runVars>>

\* newWorker: case f := <-w.jobQueue; the sender goes on to <-result.
FifoWorkerTake(i) ==
    /\ fx.workers[i].pos = "select"
    /\ fx.jobQueue # <<>>
    /\ LET j == Head(fx.jobQueue) IN
       fx' = [fx EXCEPT !.workers[i] = [job |-> j, pos |-> "fn"],
                        !.jobQueue = Tail(@),
                        !.st[j] = "result",
                        !.handed = Append(@, j)]
    /\ UNCHANGED <<baseVars, limVars, wp, lx, runVars>>

\* The job runs fn().
FifoRunFn(i) ==
    /\ fx.workers[i].pos = "fn"
    /\ fx' = [fx EXCEPT !.workers[i].pos = "result",
                        !.executed = Append(@, fx.workers[i].job)]
    /\ UNCHANGED <<baseVars, limVars, wp, lx, runVars>>

\* The job sends on result, Execute returns it, the worker is free again.
FifoResult(i) ==
    /\ fx.workers[i].pos = "result"
    /\ fx' = [fx EXCEPT !.workers[i] = idleWorker,
                        !.st[fx.workers[i].job] = "done"]
    /\ UNCHANGED <<baseVars, limVars, wp, lx, runVars>>

\* fifo.Execute: case <-time.After(f.cfg.MaxWaitTime)
FifoTimeout(j) ==
    /\ fx.st[j] = "sending"
    /\ fx' = [fx EXCEPT !.st[j] = "rejected", !.jobQueue = removeSender(@, j)]
    /\ UNCHANGED <<baseVars, limVars, wp, lx, runVars>>

NextFifo ==
    \/ \E j \in FifoJobs : FifoExecute(j)
    \/ \E i \in 1..Len(fx.workers) : FifoWorkerTake(i)
    \/ \E i \in 1..Len(fx.workers) : FifoRunFn(i)
    \/ \E i \in 1..Len(fx.workers) : FifoResult(i)
    \/ \E j \in FifoJobs : FifoTimeout(j)

SpecFifo == InitFifo /\ [][NextFifo]_vars

\* C19: with one worker and no job timing out, the jobs are handed to the
\* worker and executed in the order of their submission, when the senders
\* blocked on the job channel are served first come, first served.
C19_FifoOrder ==
    (Len(fx.workers) = 1 /\ \A j \in FifoJobs : fx.st[j] # "rejected") =>
        /\ fx.handed = [i \in 1..Len(fx.handed) |-> i]
        /\ fx.executed = [i \in 1..Len(fx.executed) |-> i]

\* One worker executed every job, and all but the first were submitted while
\* it was busy.
C19_Witness ==
    /\ Len(fx.workers) = 1
    /\ \A j \in FifoJobs : fx.st[j] = "done"
    /\ fx.queued = MaxFifoJobs - 1
    /\ Len(fx.executed) = MaxFifoJobs

---------------------------------------------------------------------------
(* execute: the LIFO executor, its dynamic queue, the goroutine that moves *)
(* jobs from the queue to the worker pool, and the workers.                *)

\* Execute calls on one LIFO executor under free interleaving.
MaxLifoJobs == 2

\* Execute calls of the burst submitted while the pool has no worker.
MaxBurst == 4

\* enqueueAtEndPolicy
enqueueAtEndPolicy(job, jobqueue) == Append(jobqueue, job)

\* fifoDequeuePolicy: the first job of the queue.
fifoDequeuePolicy(queue) ==
    IF Len(queue) = 0
    THEN [job |-> 0, afterQueue |-> <<>>]
    ELSE [job |-> queue[1], afterQueue |-> Tail(queue)]

\* A LIFO policy that hands out the first job of the queue.
lifoDequeuePolicyFirst(queue) ==
    IF Len(queue) = 0
    THEN [job |-> 0, afterQueue |-> <<>>]
    ELSE [job |-> queue[1], afterQueue |-> Tail(queue)]

\* lifoDequeuePolicy: the last job of the queue.
lifoDequeuePolicy(queue) ==
    IF Len(queue) = 0
    THEN [job |-> 0, afterQueue |-> <<>>]
    ELSE IF Len(queue) = 1
         THEN [job |-> queue[1], afterQueue |-> <<>>]
         ELSE [job |-> queue[Len(queue)], afterQueue |-> SubSeq(queue, 1, Len(queue) - 1)]

\* d.dequeuePolicy(d.jobs), for the policy the queue holds.
dequeuePolicy(name, queue) ==
    IF name = "lifo" THEN lifoDequeuePolicy(queue) ELSE fifoDequeuePolicy(queue)

\* dynamicQueue.queueIsEmpty
queueIsEmpty(d) == Len(d.jobs) < 1

\* queueStats.inc at time t
queueStatsInc(q, t) ==
    [q EXCEPT !.lastTimeEmpty = IF q.size <= 0 THEN t ELSE @,
              !.size = @ + 1]

\* queueStats.decr at time t
queueStatsDecr(q, t) ==
    [q EXCEPT !.size = @ - 1,
              !.lastTimeEmpty = IF q.size - 1 <= 0 THEN t ELSE @]

\* NewLIFO(cfg) followed by SetWorkerQuantity(quantity), for the Execute
\* calls of the set js.
NewLIFO(js, quantity) ==
    [st |-> [j \in js |-> "idle"],
     submitted |-> 0,
     inSend |-> {},
     enq |-> [pc |-> "recv", job |-> 0],
     jobs |-> <<>>,
     dequeuePolicy |-> "lifo",
     size |-> 0,
     lastTimeEmpty |-> 0,
     t |-> 0,
     stopC |-> FALSE,
     wake |-> 0,
     deq |-> [pc |-> "check", job |-> 0],
     pump |-> [pc |-> "recv", job |-> 0],
     workers |-> [i \in 1..quantity |-> idleWorker],
     dequeuedJob |-> {},
     canceledJob |-> {},
     executed |-> <<>>]

LifoOthersIdle ==
    /\ BreakerIdle
    /\ RunnersIdle
    /\ LimiterNotBuilt
    /\ wp = NotBuilt /\ fx = NotBuilt

LifoUnchanged == UNCHANGED <<baseVars, limVars, wp, fx, runVars>>

\* lifo.Execute up to its select: the channels are made and the goroutine
\* that sends the job to the queue is started.
LifoExecute(j) ==
    /\ lx.st[j] = "idle"
    /\ lx' = [lx EXCEPT !.st[j] = "wait",
                        !.submitted = @ + 1,
                        !.inSend = @ \cup {j}]
    /\ LifoUnchanged

\* enqueuer: case job := <-d.in; d.queueStats.inc()
EnqueuerRecv(j) ==
    /\ lx.enq.pc = "recv"
    /\ j \in lx.inSend
    /\ lx' = [queueStatsInc(lx, lx.t) EXCEPT !.inSend = @ \ {j},
                                              !.enq = [pc |-> "put", job |-> j]]
    /\ LifoUnchanged

\* An enqueuer that does not signal the dequeuer.
EnqueuerPutNoWake ==
    /\ lx.enq.pc = "put"
    /\ lx' = [lx EXCEPT !.jobs = enqueueAtEndPolicy(lx.enq.job, @),
                        !.enq = [pc |-> "recv", job |-> 0]]
    /\ LifoUnchanged

\* enqueuer, under jobsMu: the enqueue policy and the non-blocking send on
\* the wake channel of capacity 1.
EnqueuerPut ==
    /\ lx.enq.pc = "put"
    /\ lx' = [lx EXCEPT !.jobs = enqueueAtEndPolicy(lx.enq.job, @),
                        !.wake = 1,
                        !.enq = [pc |-> "recv", job |-> 0]]
    /\ LifoUnchanged

\* dequeuer: the test of d.stopC at the head of the loop, then
\* if d.queueIsEmpty()
DequeuerCheck ==
    /\ lx.deq.pc = "check"
    /\ lx' = [lx EXCEPT !.deq.pc = IF lx.stopC THEN "exit"
                                   ELSE IF queueIsEmpty(lx) THEN "sleep" ELSE "take"]
    /\ LifoUnchanged

\* dequeuer: <-d.wakeUpDequeuerC and the second d.queueIsEmpty()
DequeuerWake ==
    /\ lx.deq.pc = "sleep"
    /\ lx.wake = 1
    /\ lx' = [lx EXCEPT !.wake = 0, !.deq.pc = "recheck"]
    /\ LifoUnchanged

\* A dequeuer that trusts the wake signal and does not test the list again.
DequeuerRecheckTrusting ==
    /\ lx.deq.pc = "recheck"
    /\ lx' = [lx EXCEPT !.deq.pc = "take"]
    /\ LifoUnchanged

DequeuerRecheck ==
    /\ lx.deq.pc = "recheck"
    /\ lx' = [lx EXCEPT !.deq.pc = IF queueIsEmpty(lx) THEN "check" ELSE "take"]
    /\ LifoUnchanged

\* dequeuer, under jobsMu: job, d.jobs = d.dequeuePolicy(d.jobs)
DequeuerTake ==
    /\ lx.deq.pc = "take"
    /\ LET r == dequeuePolicy(lx.dequeuePolicy, lx.jobs) IN
       lx' = [lx EXCEPT !.jobs = r.afterQueue,
                        !.deq = [pc |-> "decr", job |-> r.job]]
    /\ LifoUnchanged

\* dequeuer: d.queueStats.decr()
DequeuerDecr ==
    /\ lx.deq.pc = "decr"
    /\ lx' = [queueStatsDecr(lx, lx.t) EXCEPT !.deq.pc = "send"]
    /\ LifoUnchanged

\* dequeuer d.out <- job meets fromQueueToWorkerPool case job := <-OutChannel()
PumperRecv ==
    /\ lx.deq.pc = "send"
    /\ lx.pump.pc = "recv"
    /\ lx' = [lx EXCEPT !.pump = [pc |-> "send", job |-> lx.deq.job],
                        !.deq = [pc |-> "check", job |-> 0]]
    /\ LifoUnchanged

\* fromQueueToWorkerPool l.workerPool.jobQueue <- job meets a worker's
\* case f := <-w.jobQueue
LifoWorkerTake(i) ==
    /\ lx.pump.pc = "send"
    /\ lx.workers[i].pos = "select"
    /\ lx' = [lx EXCEPT !.workers[i] = [job |-> lx.pump.job, pos |-> "close"],
                        !.pump = [pc |-> "recv", job |-> 0]]
    /\ LifoUnchanged

\* job: close(dequeuedJob)
JobCloseDequeued(i) ==
    /\ lx.workers[i].pos = "close"
    /\ lx' = [lx EXCEPT !.dequeuedJob = @ \cup {lx.workers[i].job},
                        !.workers[i].pos = "check"]
    /\ LifoUnchanged

\* job: select { case <-canceledJob: return; default: }
JobCheckCanceled(i) ==
    /\ lx.workers[i].pos = "check"
    /\ lx' = [lx EXCEPT !.workers[i] =
                  IF lx.workers[i].job \in lx.canceledJob
                  THEN idleWorker
                  ELSE [@ EXCEPT !.pos = "fn"]]
    /\ LifoUnchanged

\* job: f() of res <- f()
JobRunFn(i) ==
    /\ lx.workers[i].pos = "fn"
    /\ lx' = [lx EXCEPT !.executed = Append(@, lx.workers[i].job),
                        !.workers[i].pos = "res"]
    /\ LifoUnchanged

\* job res <- ... meets Execute's return <-res; res is unbuffered.
JobSendRes(i) ==
    /\ lx.workers[i].pos = "res"
    /\ lx.st[lx.workers[i].job] = "res"
    /\ lx' = [lx EXCEPT !.st[lx.workers[i].job] = "done",
                        !.workers[i] = idleWorker]
    /\ LifoUnchanged

\* lifo.Execute: case <-dequeuedJob
ExecuteDequeued(j) ==
    /\ lx.st[j] = "wait"
    /\ j \in lx.dequeuedJob
    /\ lx' = [lx EXCEPT !.st[j] = "res"]
    /\ LifoUnchanged

\* lifo.Execute: case <-time.After(l.cfg.MaxWaitTime): close(canceledJob);
\* return errors.ErrRejectedExecution
ExecuteTimeout(j) ==
    /\ lx.st[j] = "wait"
    /\ lx' = [lx EXCEPT !.st[j] = "rejected",
                        !.canceledJob = @ \cup {j}]
    /\ LifoUnchanged

\* The steps of the queue, the pumper, the workers and the waiting callers.
LifoInternal ==
    \/ \E j \in DOMAIN lx.st : EnqueuerRecv(j)
    \/ EnqueuerPut
    \/ DequeuerCheck
    \/ DequeuerWake
    \/ DequeuerRecheck
    \/ DequeuerTake
    \/ DequeuerDecr
    \/ PumperRecv
    \/ \E i \in 1..Len(lx.workers) : LifoWorkerTake(i)
    \/ \E i \in 1..Len(lx.workers) : JobCloseDequeued(i)
    \/ \E i \in 1..Len(lx.workers) : JobCheckCanceled(i)
    \/ \E i \in 1..Len(lx.workers) : JobRunFn(i)
    \/ \E i \in 1..Len(lx.workers) : JobSendRes(i)
    \/ \E j \in DOMAIN lx.st : ExecuteDequeued(j)

InitLifo ==
    /\ LifoOthersIdle
    /\ \E quantity \in 1..MaxWorkers : lx = NewLIFO(1..MaxLifoJobs, quantity)

NextLifo ==
    \/ \E j \in DOMAIN lx.st : LifoExecute(j)
    \/ LifoInternal
    \/ \E j \in DOMAIN lx.st : ExecuteTimeout(j)

SpecLifo == InitLifo /\ [][NextLifo]_vars

\* C17: a job whose Execute returned rejected on the admission timeout never
\* has its function executed.
C17_RejectedNeverExecuted ==
    \A j \in DOMAIN lx.st :
        lx.st[j] = "rejected" => \A k \in 1..Len(lx.executed) : lx.executed[k] # j

\* The goroutines of the executor take the steps they can take.
LifoFairness ==
    /\ WF_vars(LifoInternal)
    /\ \A i \in 1..MaxWorkers : WF_vars(i <= Len(lx.workers) /\ JobSendRes(i))

SpecLifoFair == InitLifo /\ [][NextLifo]_vars /\ LifoFairness

\* C36: a worker that ran the function of a job becomes free again: it does
\* not stay blocked on the delivery of the result, also when the caller's
\* MaxWaitTime expired as the job was dequeued.
C36_WorkerFreed ==
    \A i \in 1..MaxWorkers :
        (i <= Len(lx.workers) /\ lx.workers[i].pos = "res")
            ~> (i <= Len(lx.workers) /\ lx.workers[i].pos = "select")

---------------------------------------------------------------------------
(* The burst of TestExecuteLIFOOrder: the calls are made one at a time     *)
(* while the pool has no worker, each after the queue has come to rest,    *)
(* then SetWorkerQuantity(1) starts draining; MaxWaitTime never elapses.   *)

\* Nothing in the queue, the pumper, the workers or the callers can move.
Settled == ~ENABLED LifoInternal

InitLifoOrder ==
    /\ LifoOthersIdle
    /\ \E n \in 1..MaxBurst : lx = NewLIFO(1..n, 0)

\* The next call of the burst, 1ms after the previous one.
LifoExecuteSettled(j) ==
    /\ j = lx.submitted + 1
    /\ Len(lx.workers) = 0
    /\ Settled
    /\ LifoExecute(j)

\* exec.SetWorkerQuantity(1), 10ms after the last call.
LifoSetWorkerQuantity ==
    /\ lx.submitted = Cardinality(DOMAIN lx.st)
    /\ Len(lx.workers) = 0
    /\ Settled
    /\ lx' = [lx EXCEPT !.workers = <<idleWorker>>]
    /\ LifoUnchanged

NextLifoOrder ==
    \/ \E j \in DOMAIN lx.st : LifoExecuteSettled(j)
    \/ LifoSetWorkerQuantity
    \/ LifoInternal

SpecLifoOrder == InitLifoOrder /\ [][NextLifoOrder]_vars

\* First submitted, second submitted, then the n-th down to the third.
ExpectedOrder(n) == [k \in 1..n |-> IF k <= 2 THEN k ELSE n + 3 - k]

\* C20: n jobs submitted one at a time to a LIFO executor without workers,
\* then one worker added: the jobs execute in the order 1, 2, n, n-1, ..., 3,
\* none is rejected, and the run only comes to rest when all have returned.
C20_LifoBurstOrder ==
    LET n == Cardinality(DOMAIN lx.st) IN
    /\ Len(lx.executed) <= n
    /\ lx.executed = SubSeq(ExpectedOrder(n), 1, Len(lx.executed))
    /\ \A j \in DOMAIN lx.st : lx.st[j] # "rejected"
    /\ (Len(lx.workers) = 1 /\ Settled) => \A j \in DOMAIN lx.st : lx.st[j] = "done"

\* A burst of MaxBurst jobs has run to the end in the expected order.
C20_Witness ==
    /\ Cardinality(DOMAIN lx.st) = MaxBurst
    /\ Len(lx.workers) = 1
    /\ \A j \in DOMAIN lx.st : lx.st[j] = "done"
    /\ lx.executed = ExpectedOrder(MaxBurst)

---------------------------------------------------------------------------
(* fallback: the runner that calls a fallback unit when the inner fails.   *)

\* Run calls on one fallback runner.
MaxFallbackRuns == 3

ErrFallback == "fallback error"

\* What the fallback unit g returns.
FallbackResults == {Nil, ErrWanted, ErrFallback}

OthersIdle ==
    /\ BreakerIdle
    /\ LimiterNotBuilt
    /\ ExecIdle

\* A runner that calls the fallback whatever the inner result.
fallbackAfterInnerAlways(err) == "fallback"

\* fallback.New: if err != nil { return fallback(ctx) }; return nil
fallbackAfterInner(err) == IF err # Nil THEN "fallback" ELSE "done"

NoFallbackCall ==
    [ctx |-> "none", f |-> "none", g |-> "none", err |-> "none", fCalled |-> FALSE,
     gCalls |-> 0, gCtx |-> "none", ret |-> "none"]

\* fallback.New(g, nil): the inner runner is the sanitized nil runner.
InitFallback ==
    /\ OthersIdle
    /\ bh = NotBuilt /\ rt = NotBuilt /\ tm = NotBuilt
    /\ fb = [r |-> Sanitize(nilRunner), pc |-> "idle", runs |-> 0, failed |-> 0, gTotal |-> 0,
             call |-> NoFallbackCall]

\* runner.Run(ctx, f) is called on the runner made with fallback unit g.
FallbackRun(ctx, f, g) ==
    /\ fb.pc \in {"idle", "done"}
    /\ fb.runs < MaxFallbackRuns
    /\ fb' = [fb EXCEPT !.pc = "inner",
                        !.runs = @ + 1,
                        !.call = [NoFallbackCall EXCEPT !.ctx = ctx, !.f = f, !.g = g]]
    /\ UNCHANGED <<baseVars, limVars, execVars, bh, rt, tm>>

\* err := r.Run(ctx, f) and the test of err.
FallbackInner ==
    /\ fb.pc = "inner"
    /\ LET res == CommandRun(fb.call.ctx, fb.call.f) IN
       fb' = [fb EXCEPT !.call.err = res.err,
                        !.call.fCalled = res.called,
                        !.failed = IF res.err # Nil THEN @ + 1 ELSE @,
                        !.call.ret = IF fallbackAfterInner(res.err) = "done" THEN Nil ELSE @,
                        !.pc = fallbackAfterInner(res.err)]
    /\ UNCHANGED <<baseVars, limVars, execVars, bh, rt, tm>>

\* return fallback(ctx)
FallbackCall ==
    /\ fb.pc = "fallback"
    /\ fb' = [fb EXCEPT !.call.gCalls = @ + 1,
                        !.gTotal = @ + 1,
                        !.call.gCtx = fb.call.ctx,
                        !.call.ret = fb.call.g,
                        !.pc = "done"]
    /\ UNCHANGED <<baseVars, limVars, execVars, bh, rt, tm>>

NextFallback ==
    \/ \E ctx \in Contexts, f \in FuncResults, g \in FallbackResults : FallbackRun(ctx, f, g)
    \/ FallbackInner
    \/ FallbackCall

SpecFallback == InitFallback /\ [][NextFallback]_vars

---------------------------------------------------------------------------
(* retry: the runner that repeats a failed execution.                      *)
(* Durations are whole clock units; the source tree holds two definitions  *)
(* of retry.NewMiddleware, and the runner is built from either of them.    *)

\* Clock units in time.Millisecond.
Millisecond == 4

\* The latest attempt on which eventuallySucceed returns nil.
MaxSucceedAt == 5

\* The larger configured Times.
MaxTimes == 2

defaultWaitBase == 20 * Millisecond
defaultTimesToRetry == 3

BuildRetryGo == "retry/retry.go"
BuildRetryMerged == "circuitbreaker/circuitbreaker.go"
RetryBuilds == {BuildRetryGo, BuildRetryMerged}

\* retry.Config.defaults()
retryDefaults(c) ==
    [c EXCEPT !.WaitBase = IF @ <= 0 THEN defaultWaitBase ELSE @,
              !.Times = IF @ <= 0 THEN defaultTimesToRetry ELSE @]

\* The configurations; the default WaitBase and the default Times are taken
\* without backoff only.
RetryConfigs ==
    [WaitBase : {1, 3, Millisecond}, DisableBackoff : BOOLEAN, Times : 1..MaxTimes]
        \cup [WaitBase : {0, 3}, DisableBackoff : {TRUE}, Times : {-1, 0, 1}]

\* time.Duration.Round(m), halfway values away from zero, for d >= 0.
Round(d, m) ==
    LET r == d % m IN
    IF r + r < m THEN d - r ELSE d + m - r

\* math.Exp2 of a small natural number.
Exp2(n) == 2 ^ n

\* time.Duration(float64(w) * random.Float64()): random.Float64() is in [0, 1).
Jitter(w) == IF w <= 0 THEN {0} ELSE 0..(w - 1)

\* The durations the sleep after failed attempt i can last.
waitDurations(build, c, i) ==
    IF c.DisableBackoff
    THEN {c.WaitBase}
    ELSE IF build = BuildRetryGo
         THEN Jitter(Round(c.WaitBase * Exp2(i + 1), Millisecond))
         ELSE {Round(j, Millisecond) : j \in Jitter(c.WaitBase * Exp2(i))}

\* A loop that stops one attempt early.
retryLoopStrict(c, i) == i < c.Times

\* for i := 0; i <= cfg.Times; i++
retryLoop(c, i) == i <= c.Times

\* eventuallySucceed.Run on its n-th execution.
eventuallySucceed(successfulExecutionAttempt, n) ==
    IF n = successfulExecutionAttempt THEN Nil ELSE ErrWanted

\* retry.New(cfg), and the f of the next Run.
InitRetry ==
    /\ OthersIdle
    /\ bh = NotBuilt /\ tm = NotBuilt /\ fb = NotBuilt
    /\ \E c \in RetryConfigs, b \in RetryBuilds, sa \in 1..MaxSucceedAt :
          rt = [cfg |-> retryDefaults(c), build |-> b,
                successfulExecutionAttempt |-> sa,
                pc |-> "idle", i |-> 0, timesExecuted |-> 0, err |-> Nil,
                slept |-> 0, ret |-> "none"]

\* exec.Run(ctx, f): the loop is entered.
RetryRun ==
    /\ rt.pc = "idle"
    /\ rt' = [rt EXCEPT !.pc = IF retryLoop(rt.cfg, 0) THEN "attempt" ELSE "done",
                        !.ret = IF retryLoop(rt.cfg, 0) THEN @ ELSE rt.err]
    /\ UNCHANGED <<baseVars, limVars, execVars, bh, tm, fb>>

\* err = next.Run(ctx, f); if err == nil { return nil }
RetryAttempt ==
    /\ rt.pc = "attempt"
    /\ LET e == eventuallySucceed(rt.successfulExecutionAttempt, rt.timesExecuted + 1) IN
       rt' = [rt EXCEPT !.timesExecuted = @ + 1,
                        !.err = e,
                        !.pc = IF e = Nil THEN "done" ELSE "sleep",
                        !.ret = IF e = Nil THEN Nil ELSE @]
    /\ UNCHANGED <<baseVars, limVars, execVars, bh, tm, fb>>

\* time.Sleep(waitDuration); i++; the loop test; return err after the loop.
RetrySleep(d) ==
    /\ rt.pc = "sleep"
    /\ d \in waitDurations(rt.build, rt.cfg, rt.i)
    /\ rt' = [rt EXCEPT !.slept = d,
                        !.i = @ + 1,
                        !.pc = IF retryLoop(rt.cfg, rt.i + 1) THEN "attempt" ELSE "done",
                        !.ret = IF retryLoop(rt.cfg, rt.i + 1) THEN @ ELSE rt.err]
    /\ UNCHANGED <<baseVars, limVars, execVars, bh, tm, fb>>

\* The durations a sleep can last under RetryConfigs.
SleepRange == 0..(Millisecond * Exp2(MaxTimes + 1)) \cup {defaultWaitBase}

NextRetry ==
    \/ RetryRun
    \/ RetryAttempt
    \/ \E d \in SleepRange : RetrySleep(d)

SpecRetry == InitRetry /\ [][NextRetry]_vars

min(a, b) == IF a <= b THEN a ELSE b

\* C25: without backoff and with Times = k, when Run has returned the inner
\* runner was invoked min(k+1, s) times, s the attempt on which f succeeds,
\* and Run returned nil if s <= k+1 and the last error otherwise.
C25_RetryCount ==
    (rt.pc = "done" /\ rt.cfg.DisableBackoff) =>
        /\ rt.timesExecuted = min(rt.cfg.Times + 1, rt.successfulExecutionAttempt)
        /\ rt.ret = IF rt.successfulExecutionAttempt <= rt.cfg.Times + 1 THEN Nil ELSE ErrWanted

\* f succeeded on the last attempt allowed, after Times sleeps of WaitBase.
C25_Witness ==
    /\ rt.pc = "done"
    /\ rt.cfg.DisableBackoff
    /\ rt.cfg.Times = MaxTimes
    /\ rt.successfulExecutionAttempt = MaxTimes + 1
    /\ rt.timesExecuted = MaxTimes + 1
    /\ rt.i = MaxTimes
    /\ rt.slept = rt.cfg.WaitBase
    /\ rt.ret = Nil

\* C26: with backoff the sleep after failed attempt i (from 0) is between 0
\* and WaitBase * 2^i; without backoff every sleep is WaitBase. The sleep
\* just finished is the one after attempt rt.i - 1.
C26_BackoffRange ==
    rt.i >= 1 =>
        IF rt.cfg.DisableBackoff
        THEN rt.slept = rt.cfg.WaitBase
        ELSE 0 <= rt.slept /\ rt.slept <= rt.cfg.WaitBase * Exp2(rt.i - 1)

---------------------------------------------------------------------------
(* timeout: the runner that races the inner runner against a deadline.     *)

\* The last instant of the clock of the timeout runner.
MaxTmClock == 4

\* Clock units in time.Second.
Second == 3

defaultTimeout == 1 * Second

ErrTimeout == "timeout while executing"
ErrDeadlineExceeded == "context deadline exceeded"

\* StaticConfig.defaults()
timeoutDefaults(c) == [c EXCEPT !.Timeout = IF @ <= 0 THEN defaultTimeout ELSE @]

TimeoutConfigs == [Timeout : {-1, 0, 1, 2}]

\* A context that is always done.
ctxDoneAlways(t) == TRUE

\* ctx.Done() of the context made by context.WithTimeout(ctx, cfg.Timeout):
\* closed at the deadline or when the caller's context is cancelled.
ctxDone(t) == t.cancelled \/ t.t >= t.deadline

\* ctx.Err() of that context.
ctxErr(t) ==
    IF t.cancelled THEN ErrContextCanceled
    ELSE IF t.t >= t.deadline THEN ErrDeadlineExceeded ELSE Nil

\* timeout.NewStatic(cfg, nil)
InitTimeout ==
    /\ OthersIdle
    /\ bh = NotBuilt /\ rt = NotBuilt /\ fb = NotBuilt
    /\ \E c \in TimeoutConfigs :
          tm = [cfg |-> timeoutDefaults(c), r |-> Sanitize(nilRunner),
                pc |-> "idle", t |-> 0, startAt |-> 0, deadline |-> 0, cancelled |-> FALSE,
                f |-> "none", inner |-> "none", ierr |-> "none", fCalled |-> FALSE,
                ret |-> "none", retAt |-> 0, timeouts |-> 0]

TimeoutUnchanged == UNCHANGED <<baseVars, limVars, execVars, bh, rt, fb>>

\* Run(ctx, f) up to its select: the deadline context, errc and the goroutine.
TimeoutRun(f) ==
    /\ tm.pc = "idle"
    /\ tm' = [tm EXCEPT !.pc = "select", !.f = f, !.startAt = tm.t,
                        !.deadline = tm.t + tm.cfg.Timeout, !.inner = "start"]
    /\ TimeoutUnchanged

\* The goroutine enters r.Run(ctx, f): Command.Run tests the context and
\* calls f.
TimeoutInnerStart ==
    /\ tm.inner = "start"
    /\ IF ctxErr(tm) # Nil
       THEN tm' = [tm EXCEPT !.inner = "send", !.ierr = ctxErr(tm)]
       ELSE tm' = [tm EXCEPT !.inner = "running", !.fCalled = TRUE]
    /\ TimeoutUnchanged

\* f returns and the goroutine reaches errc <- ...
TimeoutInnerReturn ==
    /\ tm.inner = "running"
    /\ tm' = [tm EXCEPT !.inner = "send", !.ierr = tm.f]
    /\ TimeoutUnchanged

\* select: case err := <-errc: return err
TimeoutResult ==
    /\ tm.pc = "select"
    /\ tm.inner = "send"
    /\ tm' = [tm EXCEPT !.pc = "done", !.ret = tm.ierr, !.retAt = tm.t, !.inner = "exit"]
    /\ TimeoutUnchanged

\* select: case <-ctx.Done(): metricsRecorder.IncTimeout(); return ErrTimeout
TimeoutDeadline ==
    /\ tm.pc = "select"
    /\ ctxDone(tm)
    /\ tm' = [tm EXCEPT !.pc = "done", !.ret = ErrTimeout, !.retAt = tm.t,
                        !.timeouts = @ + 1]
    /\ TimeoutUnchanged

\* The caller's context is cancelled while Run is waiting.
TimeoutCancel ==
    /\ tm.pc = "select"
    /\ ~tm.cancelled
    /\ tm' = [tm EXCEPT !.cancelled = TRUE]
    /\ TimeoutUnchanged

\* Time passes.
TimeoutTick ==
    /\ tm.t < MaxTmClock
    /\ tm' = [tm EXCEPT !.t = @ + 1]
    /\ TimeoutUnchanged

NextTimeout ==
    \/ \E f \in FuncResults : TimeoutRun(f)
    \/ TimeoutInnerStart
    \/ TimeoutInnerReturn
    \/ TimeoutResult
    \/ TimeoutDeadline
    \/ TimeoutCancel
    \/ TimeoutTick

SpecTimeout == InitTimeout /\ [][NextTimeout]_vars

C39_TimeoutOnlyAtDeadline ==
    tm.pc = "done" =>
        /\ tm.ret = ErrTimeout => tm.retAt >= tm.deadline
        /\ tm.timeouts > 0 => tm.retAt >= tm.deadline

\* The goroutine of Run takes its steps, and a result that is awaited is
\* received.
TimeoutFairness ==
    /\ WF_vars(TimeoutInnerStart)
    /\ WF_vars(TimeoutInnerReturn)
    /\ WF_vars(TimeoutResult)

SpecTimeoutFair == InitTimeout /\ [][NextTimeout]_vars /\ TimeoutFairness

\* C40: after Run returned the timeout error, the goroutine it started
\* terminates once the inner runner has returned.
C40_TaskTerminates ==
    (tm.pc = "done" /\ tm.ret = ErrTimeout) ~> (tm.inner = "exit")

---------------------------------------------------------------------------
(* bulkhead: a fixed pool of workers fed through an unbuffered channel.    *)
(* A caller blocked in its select leaves it at the instant one of its      *)
(* cases is ready, so no time passes while a handoff or a timeout is due.  *)

\* Concurrent callers of one bulkhead.
NumBhCallers == 3

\* The largest configured number of workers.
MaxBhWorkers == 2

\* The last instant of the clock of the bulkhead.
MaxBhClock == 2

\* The longest execution of f, in clock units.
MaxWork == 2

BhCallers == 1..NumBhCallers

defaultWorkers == 15

ErrTimeoutWaitingForExecution == "timeout while waiting for execution"

\* bulkhead.Config.defaults()
bulkheadDefaults(c) ==
    [c EXCEPT !.Workers = IF @ <= 0 THEN defaultWorkers ELSE @,
              !.MaxWaitTime = IF @ < 0 THEN 0 ELSE @]

BulkheadConfigs == [Workers : 1..MaxBhWorkers, MaxWaitTime : {-1, 0, 1}]

NoBhCall ==
    [pc |-> "idle", start |-> 0, f |-> "none", accepted |-> FALSE, fCalled |-> FALSE,
     acceptedAt |-> 0, resC |-> "none", ret |-> "none", retAt |-> 0]

freeWorker == [job |-> 0, since |-> 0]

\* A worker that receives a job while it is running another one.
workerReceivesAlways(w) == TRUE

\* startWorkerPool: a worker is in its select when it is not inside job().
workerReceives(w) == w.job = 0

\* bulkhead.New(cfg); every call runs the same f, which lasts bh.work clock
\* units. Callers and workers are interchangeable: the next call is made by
\* the first caller that has made none, and a job goes to the first worker
\* that can receive it.
InitBulkhead ==
    /\ OthersIdle
    /\ rt = NotBuilt /\ tm = NotBuilt /\ fb = NotBuilt
    /\ \E c \in BulkheadConfigs, work \in 0..MaxWork, f \in FuncResults :
          bh = [cfg |-> bulkheadDefaults(c), runner |-> Sanitize(nilRunner),
                t |-> 0, work |-> work, f |-> f,
                workers |-> [i \in 1..bulkheadDefaults(c).Workers |-> freeWorker],
                calls |-> [p \in BhCallers |-> NoBhCall]]

BulkheadUnchanged == UNCHANGED <<baseVars, limVars, execVars, rt, tm, fb>>

\* Run(ctx, f) up to its select.
BulkheadRun(p) ==
    /\ bh.calls[p].pc = "idle"
    /\ \A q \in 1..(p - 1) : bh.calls[q].pc # "idle"
    /\ bh' = [bh EXCEPT !.calls[p] = [NoBhCall EXCEPT !.pc = "wait", !.start = bh.t, !.f = bh.f]]
    /\ BulkheadUnchanged

\* case b.jobC <- job meets a worker's case job := <-b.jobC; the worker
\* enters job(), which calls b.runner.Run(ctx, f).
BulkheadAccept(p, i) ==
    /\ bh.calls[p].pc = "wait"
    /\ workerReceives(bh.workers[i])
    /\ \A k \in 1..(i - 1) : ~workerReceives(bh.workers[k])
    /\ bh' = [bh EXCEPT !.workers[i] = [job |-> p, since |-> bh.t],
                        !.calls[p].pc = "res",
                        !.calls[p].accepted = TRUE,
                        !.calls[p].acceptedAt = bh.t,
                        !.calls[p].fCalled = CommandRun(CtxLive, bh.calls[p].f).called]
    /\ BulkheadUnchanged

\* The inner runner returns; resC <- its result (resC has capacity 1) and the
\* worker is back in its select.
BulkheadFinish(i) ==
    /\ bh.workers[i].job # 0
    /\ bh.t >= bh.workers[i].since + bh.work
    /\ LET p == bh.workers[i].job IN
       bh' = [bh EXCEPT !.workers[i] = freeWorker,
                        !.calls[p].resC = CommandRun(CtxLive, bh.calls[p].f).err]
    /\ BulkheadUnchanged

\* return <-resC
BulkheadReturn(p) ==
    /\ bh.calls[p].pc = "res"
    /\ bh.calls[p].resC # "none"
    /\ bh' = [bh EXCEPT !.calls[p].pc = "done",
                        !.calls[p].ret = bh.calls[p].resC,
                        !.calls[p].retAt = bh.t]
    /\ BulkheadUnchanged

\* A timer that fires in the select without timeout too.
timerFiredAlsoWithoutMaxWait(p) == bh.t >= bh.calls[p].start + bh.cfg.MaxWaitTime

\* if b.cfg.MaxWaitTime == 0 {...} else { select { case <-time.After(...) } }
timerFired(p) ==
    /\ bh.cfg.MaxWaitTime # 0
    /\ bh.t >= bh.calls[p].start + bh.cfg.MaxWaitTime

\* case <-time.After(b.cfg.MaxWaitTime): return ErrTimeoutWaitingForExecution
BulkheadTimeout(p) ==
    /\ bh.calls[p].pc = "wait"
    /\ timerFired(p)
    /\ bh' = [bh EXCEPT !.calls[p].pc = "done",
                        !.calls[p].ret = ErrTimeoutWaitingForExecution,
                        !.calls[p].retAt = bh.t]
    /\ BulkheadUnchanged

\* A caller in its select has a ready case.
selectReady(p) ==
    /\ bh.calls[p].pc = "wait"
    /\ \/ \E i \in 1..Len(bh.workers) : workerReceives(bh.workers[i])
       \/ timerFired(p)

\* Time passes.
BulkheadTick ==
    /\ bh.t < MaxBhClock
    /\ \A p \in BhCallers : ~selectReady(p)
    /\ bh' = [bh EXCEPT !.t = @ + 1]
    /\ BulkheadUnchanged

NextBulkhead ==
    \/ \E p \in BhCallers : BulkheadRun(p)
    \/ \E p \in BhCallers, i \in 1..Len(bh.workers) : BulkheadAccept(p, i)
    \/ \E i \in 1..Len(bh.workers) : BulkheadFinish(i)
    \/ \E p \in BhCallers : BulkheadReturn(p)
    \/ \E p \in BhCallers : BulkheadTimeout(p)
    \/ BulkheadTick

SpecBulkhead == InitBulkhead /\ [][NextBulkhead]_vars

\* C23: a call returns timeout-waiting-for-execution only with a MaxWaitTime
\* that is not 0, at the end of MaxWaitTime, when no worker accepted it, and
\* then f was not invoked; no call is still waiting after MaxWaitTime; an
\* accepted call returns the result of the inner runner once it has finished.
C23_BulkheadAdmission ==
    \A p \in BhCallers :
        LET c == bh.calls[p] IN
        /\ (c.pc = "done" /\ c.ret = ErrTimeoutWaitingForExecution) =>
              /\ bh.cfg.MaxWaitTime # 0
              /\ c.retAt = c.start + bh.cfg.MaxWaitTime
              /\ ~c.accepted
              /\ ~c.fCalled
        /\ (c.pc = "wait" /\ bh.cfg.MaxWaitTime # 0) => bh.t <= c.start + bh.cfg.MaxWaitTime
        /\ (c.pc = "done" /\ c.accepted) =>
              /\ c.fCalled
              /\ c.ret = c.f
              /\ c.retAt >= c.acceptedAt + bh.work
        /\ (c.pc = "done" /\ ~c.accepted) => c.ret = ErrTimeoutWaitingForExecution
        /\ c.pc = "res" => c.accepted

\* One call was timed out while another one, accepted, returned its error.
C23_Witness ==
    \E p, q \in BhCallers :
        /\ bh.calls[p].pc = "done" /\ bh.calls[p].ret = ErrTimeoutWaitingForExecution
        /\ bh.calls[q].pc = "done" /\ bh.calls[q].accepted /\ bh.calls[q].ret = ErrWanted

\* The calls whose inner runner is in progress.
inProgress == {p \in BhCallers : bh.calls[p].accepted /\ bh.calls[p].resC = "none"}

executedCalls == {p \in BhCallers : bh.calls[p].pc = "done" /\ bh.calls[p].accepted}

timedOutCalls ==
    {p \in BhCallers : bh.calls[p].pc = "done" /\ bh.calls[p].ret = ErrTimeoutWaitingForExecution}

\* C24: at most Workers executions of the inner runner are in progress; when
\* all the calls were made at the same instant, are more than the workers and
\* their work lasts longer than MaxWaitTime, exactly Workers of them are
\* executed and the others return timeout-waiting-for-execution.
C24_BulkheadBound ==
    /\ Cardinality(inProgress) <= bh.cfg.Workers
    /\ ( /\ \A p \in BhCallers : bh.calls[p].pc = "done" /\ bh.calls[p].start = 0
         /\ bh.cfg.MaxWaitTime > 0
         /\ bh.work > bh.cfg.MaxWaitTime
         /\ NumBhCallers >= bh.cfg.Workers )
       => /\ Cardinality(executedCalls) = bh.cfg.Workers
          /\ Cardinality(timedOutCalls) = NumBhCallers - bh.cfg.Workers

\* Simultaneous calls, more than the workers, have all returned: the workers
\* executed their share and at least one call was timed out.
C24_Witness ==
    /\ \A p \in BhCallers : bh.calls[p].pc = "done" /\ bh.calls[p].start = 0
    /\ bh.cfg.MaxWaitTime > 0
    /\ bh.work > bh.cfg.MaxWaitTime
    /\ bh.cfg.Workers = MaxBhWorkers
    /\ Cardinality(executedCalls) = MaxBhWorkers
    /\ Cardinality(timedOutCalls) = NumBhCallers - MaxBhWorkers
    /\ timedOutCalls # {}

---------------------------------------------------------------------------
(* execute: the adaptive LIFO + CoDel executor. It is the dynamic queue,   *)
(* the pumper and the worker pool of the LIFO executor, with a dequeue     *)
(* policy and an admission timeout chosen by every Execute call, a result  *)
(* channel and a cancel channel of capacity 1, and a clock. The goroutines *)
(* of the queue are fast: a call, a job step, a timeout or a clock tick    *)
(* happens when the queue has come to rest.                                *)

\* Execute calls on one adaptive executor.
MaxCodelJobs == 6

\* The last instant of the clock of the adaptive executor.
MaxCodelClock == 3

defaultCodelTargetDelay == 5 * Millisecond
defaultCodelInterval == 100 * Millisecond

\* AdaptiveLIFOCodelConfig.defaults()
codelDefaults(c) ==
    [c EXCEPT !.CodelTargetDelay = IF @ = 0 THEN defaultCodelTargetDelay ELSE @,
              !.CodelInterval = IF @ = 0 THEN defaultCodelInterval ELSE @]

CodelConfigs ==
    {[CodelTargetDelay |-> 1, CodelInterval |-> 2],
     [CodelTargetDelay |-> 0, CodelInterval |-> 0]}

\* SinceLastEmpty that does not restart the measure on an empty queue.
SinceLastEmptyStale(q, t) == [q |-> q, since |-> t - q.lastTimeEmpty]

\* queueStats.SinceLastEmpty at time t: the stats afterwards and the result.
SinceLastEmpty(q, t) ==
    LET q2 == [q EXCEPT !.lastTimeEmpty = IF q.size <= 0 THEN t ELSE @] IN
    [q |-> q2, since |-> t - q2.lastTimeEmpty]

\* Congestion that starts at the interval itself.
queueCongestedInclusive(a, since) == since >= a.cfg.CodelInterval

\* adaptiveLIFOCodel.queueCongested, for the value SinceLastEmpty returned.
queueCongested(a, since) == since > a.cfg.CodelInterval

\* NewAdaptiveLIFOCodel(cfg) followed by SetWorkerQuantity(quantity).
\* deadline is the timer of the select of a call; batch is the first call
\* that found the queue drained with no congested call since, batchAt its
\* instant (0 when the last call was congested).
NewAdaptiveLIFOCodel(c, js, quantity) ==
    [NewLIFO(js, quantity) EXCEPT !.dequeuePolicy = "fifo"]
        @@ [cfg |-> codelDefaults(c),
            deadline |-> [j \in js |-> 0],
            batch |-> 0,
            batchAt |-> 0,
            res |-> {}]

\* The steps of the enqueuer, the dequeuer and the pumper, and a worker
\* receiving a job.
QueueMoves ==
    \/ \E j \in DOMAIN lx.st : EnqueuerRecv(j)
    \/ EnqueuerPut
    \/ DequeuerCheck
    \/ DequeuerWake
    \/ DequeuerRecheck
    \/ DequeuerTake
    \/ DequeuerDecr
    \/ PumperRecv
    \/ \E i \in 1..Len(lx.workers) : LifoWorkerTake(i)

\* The queue has come to rest ("Sleep so the funcs enter in order").
QueueSettled == ~ENABLED QueueMoves

InitCodel ==
    /\ LifoOthersIdle
    /\ \E c \in CodelConfigs : lx = NewAdaptiveLIFOCodel(c, 1..MaxCodelJobs, 1)

\* adaptiveLIFOCodel.Execute up to its select: the congestion test, the
\* dequeue policy, the timeout, the channels and the sending goroutine.
AdaptiveExecute(j) ==
    /\ lx.st[j] = "idle"
    /\ j = lx.submitted + 1
    /\ QueueSettled
    /\ LET sle == SinceLastEmpty(lx, lx.t)
           cong == queueCongested(lx, sle.since)
       IN lx' = [sle.q EXCEPT !.dequeuePolicy = IF cong THEN "lifo" ELSE "fifo",
                              !.deadline[j] = lx.t + (IF cong THEN lx.cfg.CodelTargetDelay
                                                              ELSE lx.cfg.CodelInterval),
                              !.batch = IF cong THEN 0
                                        ELSE IF lx.size <= 0 /\ @ = 0 THEN j ELSE @,
                              !.batchAt = IF cong THEN 0
                                          ELSE IF lx.size <= 0 /\ lx.batch = 0
                                               THEN lx.t ELSE @,
                              !.st[j] = "wait",
                              !.submitted = @ + 1,
                              !.inSend = @ \cup {j}]
    /\ LifoUnchanged

\* job: res <- f() on the result channel of capacity 1; the worker is free.
AdaptiveJobSendRes(i) ==
    /\ lx.workers[i].pos = "res"
    /\ lx' = [lx EXCEPT !.res = @ \cup {lx.workers[i].job},
                        !.workers[i] = idleWorker]
    /\ LifoUnchanged

\* A call whose select has a ready case: its job was dequeued, its result
\* is on the channel, or its timer has fired.
adaptiveSelectReady(j) ==
    \/ lx.st[j] = "wait" /\ (j \in lx.dequeuedJob \/ lx.t >= lx.deadline[j])
    \/ lx.st[j] = "res" /\ j \in lx.res

\* The steps of different calls commute: of the calls whose select is
\* ready, the first one moves.
firstReady(j) ==
    /\ adaptiveSelectReady(j)
    /\ \A k \in DOMAIN lx.st : k < j => ~adaptiveSelectReady(k)

\* Execute: case <-dequeuedJob; the timer of the select is dropped.
AdaptiveDequeued(j) ==
    /\ firstReady(j)
    /\ lx.st[j] = "wait"
    /\ j \in lx.dequeuedJob
    /\ lx' = [lx EXCEPT !.st[j] = "res", !.deadline[j] = 0]
    /\ LifoUnchanged

\* Execute: return <-res
AdaptiveReturn(j) ==
    /\ firstReady(j)
    /\ lx.st[j] = "res"
    /\ j \in lx.res
    /\ lx' = [lx EXCEPT !.st[j] = "done", !.res = @ \ {j}]
    /\ LifoUnchanged

\* Execute: case <-time.After(timeout): canceledJob <- struct{}{};
\* return errors.ErrRejectedExecution
AdaptiveTimeout(j) ==
    /\ firstReady(j)
    /\ lx.st[j] = "wait"
    /\ lx.t >= lx.deadline[j]
    /\ lx' = [lx EXCEPT !.st[j] = "rejected",
                        !.deadline[j] = 0,
                        !.canceledJob = @ \cup {j}]
    /\ LifoUnchanged

\* Time passes.
\* The clock advances while every call is blocked and every worker is idle
\* or inside f.
AdaptiveTick ==
    /\ lx.t < MaxCodelClock
    /\ \A j \in DOMAIN lx.st : ~adaptiveSelectReady(j)
    /\ \A i \in 1..Len(lx.workers) : lx.workers[i].pos \in {"idle", "fn"}
    /\ lx' = [lx EXCEPT !.t = @ + 1]
    /\ LifoUnchanged

NextCodel ==
    \/ \E j \in DOMAIN lx.st : AdaptiveExecute(j)
    \/ QueueMoves
    \/ QueueSettled /\ \E i \in 1..Len(lx.workers) : JobCloseDequeued(i)
    \/ QueueSettled /\ \E i \in 1..Len(lx.workers) : JobCheckCanceled(i)
    \/ QueueSettled /\ \E i \in 1..Len(lx.workers) : JobRunFn(i)
    \/ QueueSettled /\ \E i \in 1..Len(lx.workers) : AdaptiveJobSendRes(i)
    \/ QueueSettled /\ \E j \in DOMAIN lx.st : AdaptiveDequeued(j)
    \/ QueueSettled /\ \E j \in DOMAIN lx.st : AdaptiveReturn(j)
    \/ QueueSettled /\ \E j \in DOMAIN lx.st : AdaptiveTimeout(j)
    \/ QueueSettled /\ AdaptiveTick

SpecCodel == InitCodel /\ [][NextCodel]_vars

\* The time the queue has not been empty, as the next call will measure it.
sinceLastEmpty == IF lx.size <= 0 THEN 0 ELSE lx.t - lx.lastTimeEmpty

\* Call j enters Execute in this step.
ExecuteStep(j) == lx.st[j] = "idle" /\ lx'.st[j] = "wait"

\* C21: the executor starts with the FIFO policy, and every Execute call is
\* congested exactly when the time since the queue was last empty exceeds
\* CodelInterval: a congested call sets the LIFO policy and waits
\* CodelTargetDelay, any other call sets the FIFO policy and waits
\* CodelInterval.
C21_CongestionRule ==
    /\ [](lx.submitted = 0 => lx.dequeuePolicy = "fifo")
    /\ [][\A j \in DOMAIN lx.st :
            ExecuteStep(j) =>
                IF sinceLastEmpty > lx.cfg.CodelInterval
                THEN /\ lx'.dequeuePolicy = "lifo"
                     /\ lx'.deadline[j] = lx.t + lx.cfg.CodelTargetDelay
                ELSE /\ lx'.dequeuePolicy = "fifo"
                     /\ lx'.deadline[j] = lx.t + lx.cfg.CodelInterval]_vars

\* A call has just found the queue congested: the policy is LIFO and its
\* timer is the target delay, shorter than the interval.
C21_Witness ==
    /\ lx.submitted > 0
    /\ lx.submitted \in lx.inSend
    /\ lx.dequeuePolicy = "lifo"
    /\ lx.cfg.CodelTargetDelay < lx.cfg.CodelInterval
    /\ lx.deadline[lx.submitted] = lx.t + lx.cfg.CodelTargetDelay

\* The calls of the batch that ran f, in the order they ran it.
batchExecuted == SelectSeq(lx.executed, LAMBDA k : k >= lx.batch)

---------------------------------------------------------------------------
(* execute: the dynamic queue with its stop channel. Callers send jobs on  *)
(* the in-channel, the enqueuer and the dequeuer move them through the job *)
(* list, fromQueueToWorkerPool reads the out-channel and hands every job   *)
(* to the worker pool. A job that left the queue can be sent again.        *)

\* Jobs that can be in the queue at once.
MaxQueueJobs == 3

\* newDynamicQueue(stopC, enqueueAtEndPolicy, policy) and the goroutine
\* fromQueueToWorkerPool, as NewLIFO and NewAdaptiveLIFOCodel start them.
newDynamicQueue(js, policy) ==
    [NewLIFO(js, 0) EXCEPT !.dequeuePolicy = policy]

InitQueue ==
    /\ LifoOthersIdle
    /\ \E policy \in {"fifo", "lifo"} : lx = newDynamicQueue(1..MaxQueueJobs, policy)

\* Job j is in the in-channel, the enqueuer, the list, the dequeuer or
\* fromQueueToWorkerPool.
inQueue(j) ==
    \/ j \in lx.inSend
    \/ lx.enq.job = j
    \/ \E k \in 1..Len(lx.jobs) : lx.jobs[k] = j
    \/ lx.deq.job = j
    \/ lx.pump.job = j

\* Execute: go func() { queue.InChannel() <- job }()
QueueSend(j) ==
    /\ ~inQueue(j)
    /\ lx' = [lx EXCEPT !.inSend = @ \cup {j}]
    /\ LifoUnchanged

\* fromQueueToWorkerPool: workerPool.jobQueue <- job, received by a worker.
PumperDeliver ==
    /\ lx.pump.pc = "send"
    /\ lx' = [lx EXCEPT !.pump = [pc |-> "recv", job |-> 0]]
    /\ LifoUnchanged

\* close(cfg.StopChannel)
QueueStop ==
    /\ ~lx.stopC
    /\ lx' = [lx EXCEPT !.stopC = TRUE]
    /\ LifoUnchanged

\* enqueuer: case <-d.stopC: return
EnqueuerStop ==
    /\ lx.enq.pc = "recv"
    /\ lx.stopC
    /\ lx' = [lx EXCEPT !.enq.pc = "exit"]
    /\ LifoUnchanged

\* fromQueueToWorkerPool: case <-cfg.StopChannel: return
PumperStop ==
    /\ lx.pump.pc = "recv"
    /\ lx.stopC
    /\ lx' = [lx EXCEPT !.pump.pc = "exit"]
    /\ LifoUnchanged

\* The steps of the goroutines of the queue.
QueueTasks ==
    \/ \E j \in DOMAIN lx.st : EnqueuerRecv(j)
    \/ EnqueuerPut
    \/ EnqueuerStop
    \/ DequeuerCheck
    \/ DequeuerWake
    \/ DequeuerRecheck
    \/ DequeuerTake
    \/ DequeuerDecr
    \/ PumperRecv
    \/ PumperDeliver
    \/ PumperStop

NextQueue ==
    \/ \E j \in DOMAIN lx.st : QueueSend(j)
    \/ QueueStop
    \/ QueueTasks

\* Every goroutine that can take a step takes one: the scheduler of Go is
\* fair to runnable goroutines, and the worker pool keeps receiving.
QueueFairness ==
    /\ WF_vars(\E j \in DOMAIN lx.st : EnqueuerRecv(j))
    /\ WF_vars(EnqueuerPut)
    /\ WF_vars(EnqueuerStop)
    /\ WF_vars(DequeuerCheck)
    /\ WF_vars(DequeuerWake)
    /\ WF_vars(DequeuerRecheck)
    /\ WF_vars(DequeuerTake)
    /\ WF_vars(DequeuerDecr)
    /\ WF_vars(PumperRecv)
    /\ WF_vars(PumperDeliver)
    /\ WF_vars(PumperStop)

SpecQueue == InitQueue /\ [][NextQueue]_vars /\ QueueFairness

\* The enqueuer, the dequeuer and fromQueueToWorkerPool have returned.
queueTasksExited ==
    /\ lx.enq.pc = "exit"
    /\ lx.deq.pc = "exit"
    /\ lx.pump.pc = "exit"

\* C29: after the stop channel is closed, every background task of the
\* queue eventually exits, whatever it was doing or waiting on.
C29_StopTerminatesTasks == lx.stopC ~> queueTasksExited

\* The dequeuer is blocked on the wake channel and no signal is pending.
dequeuerAsleep == lx.deq.pc = "sleep" /\ lx.wake = 0

\* A dequeuer asleep with no pending signal has an empty job list.
NoLostWakeUp == dequeuerAsleep => lx.jobs = <<>>

\* A dequeuer woken by the signal of a job it already dequeued goes back to
\* the head of its loop without dequeuing.
StaleWakeRechecks ==
    (lx.deq.pc = "recheck" /\ lx.jobs = <<>> /\ lx'.deq # lx.deq)
        => /\ lx'.deq = [pc |-> "check", job |-> 0]
           /\ lx'.jobs = lx.jobs

\* Job j, accepted by the enqueuer, is eventually written to the
\* out-channel, unless the queue is stopped.
eventuallyOut(j) == <>lx.stopC \/ ((lx.enq.job = j) ~> (lx.pump.job = j))

\* C30 as stated: no lost wake-up, a stale signal makes the dequeuer
\* re-check and wait again, and every accepted job is eventually written to
\* the out-channel while the queue is not stopped.
C30_EveryJobLeaves ==
    /\ []NoLostWakeUp
    /\ [][StaleWakeRechecks]_vars
    /\ \A j \in 1..MaxQueueJobs : eventuallyOut(j)

\* C30, amended: no lost wake-up and the re-check on a stale signal hold
\* under both policies; every accepted job is eventually written to the
\* out-channel while the queue is not stopped under the FIFO policy (under
\* the LIFO policy newer jobs can overtake an old one for ever).
C30_NoLostWakeUp ==
    /\ []NoLostWakeUp
    /\ [][StaleWakeRechecks]_vars
    /\ \A j \in 1..MaxQueueJobs :
           lx.dequeuePolicy = "fifo" => eventuallyOut(j)

\* The dequeuer took the pending signal of a job it had already dequeued:
\* it re-checks an empty list after at least one job went through.
C30_Witness ==
    /\ lx.deq.pc = "recheck"
    /\ lx.jobs = <<>>
    /\ lx.size = 0
    /\ lx.pump.job # 0
    /\ ~lx.stopC

---------------------------------------------------------------------------
(* The dynamic queue while its dequeue policy is swapped (SpecQueueSwap).  *)

\* dynamicQueue.SetDequeuePolicy(p)
QueueSetDequeuePolicy(policy) ==
    /\ lx.dequeuePolicy # policy
    /\ lx' = [lx EXCEPT !.dequeuePolicy = policy]
    /\ LifoUnchanged

NextQueueSwap ==
    \/ NextQueue
    \/ \E policy \in {"fifo", "lifo"} : QueueSetDequeuePolicy(policy)

SpecQueueSwap == InitQueue /\ [][NextQueueSwap]_vars

\* The dequeuer applies the dequeue policy to a list that is not empty.
policyOnJobs == lx.deq.pc = "take" => lx.jobs # <<>>

\* Every enqueue adds one job to the list, every dequeue removes one, and
\* nothing else changes the list: its length is the enqueues minus the
\* dequeues.
listAccounting ==
    Len(lx'.jobs) = Len(lx.jobs)
                    + (IF lx.enq.pc = "put" /\ lx'.enq.pc # "put" THEN 1 ELSE 0)
                    - (IF lx.deq.pc = "take" /\ lx'.deq.pc # "take" THEN 1 ELSE 0)

\* C31 as stated: at every moment the length of the job list and the size
\* tracked by queueStats are the same number, the enqueues minus the
\* dequeues, never negative; the dequeue policy is never applied to an
\* empty list.
C31_SizeIsListLength ==
    /\ [](lx.size = Len(lx.jobs) /\ lx.size >= 0)
    /\ [][listAccounting]_vars
    /\ []policyOnJobs

\* Jobs the stats count and the list does not hold: the enqueuer is between
\* queueStats.inc and the append, the dequeuer between the removal and
\* queueStats.decr.
statsAhead ==
    (IF lx.enq.pc = "put" THEN 1 ELSE 0) + (IF lx.deq.pc = "decr" THEN 1 ELSE 0)

\* C31, amended: the length of the job list is the enqueues minus the
\* dequeues and the dequeue policy is never applied to an empty list; the
\* size tracked by queueStats is never negative and is the length of the
\* list plus the jobs the enqueuer and the dequeuer hold between their
\* update of the stats and of the list, so it equals the length when both
\* are at rest.
C31_SizeAccounting ==
    /\ [](lx.size = Len(lx.jobs) + statsAhead /\ lx.size >= 0)
    /\ [][listAccounting]_vars
    /\ []policyOnJobs

\* After a policy swap the stats are two ahead of a list that holds jobs.
C31_Witness ==
    /\ lx.enq.pc = "put"
    /\ lx.deq.pc = "decr"
    /\ lx.jobs # <<>>
    /\ lx.size = Len(lx.jobs) + 2
    /\ lx.dequeuePolicy = "fifo"
    /\ lx.deq.job > lx.jobs[1]

---------------------------------------------------------------------------
(* The sliding window of the circuit breaker: its ring and its rotation. *)

\* The current bucket is one bucket of the ring.
currentInRing ==
    /\ DOMAIN recorder.window = 0..(recorder.windowSize - 1)
    /\ recorder.currentBucket \in DOMAIN recorder.window

\* The bucket b after one more sample with the outcome err.
sampled(b, err) ==
    [total |-> b.total + 1, errs |-> IF err # Nil THEN b.errs + 1 ELSE b.errs]

\* A Run call that moves no state: its inc writes the current bucket only.
incOnlyCurrent ==
    (op' = "Run" /\ last'.stPre = last'.stExec /\ last'.stExec = last'.stPost) =>
        /\ recorder'.currentBucket = recorder.currentBucket
        /\ recorder'.nextIndexToReplace = recorder.nextIndexToReplace
        /\ \A i \in DOMAIN recorder.window :
              recorder'.window[i] =
                  IF i = recorder.currentBucket
                  THEN sampled(recorder.window[i], last'.err)
                  ELSE recorder.window[i]

\* A Run call whose moveState resets the window: after the call (postDecideState
\* moved) every bucket is zero; before the call (preDecideState moved) only
\* the call's own sample is there, in bucket 0.
resetZeroes ==
    /\ (op' = "Run" /\ last'.stPost # last'.stExec) =>
          /\ \A i \in DOMAIN recorder'.window : recorder'.window[i] = emptyBucket
          /\ recorder'.currentBucket = 0
          /\ recorder'.nextIndexToReplace = 1
    /\ (op' = "Run" /\ last'.stPre # last'.stExec /\ last'.stPost = last'.stExec) =>
          /\ \A i \in DOMAIN recorder'.window :
                recorder'.window[i] =
                    IF i = 0 THEN sampled(emptyBucket, last'.err) ELSE emptyBucket
          /\ recorder'.currentBucket = 0
          /\ recorder'.nextIndexToReplace = 1

\* C32: in every reachable state exactly one bucket is the current one and it is
\* a bucket of the ring; inc changes the counters of the current bucket only
\* (total +1, errors +1 iff the outcome is an error) and leaves every other
\* bucket unchanged; reset zeroes every bucket and makes bucket 0 the current
\* one with the next rotation targeting bucket 1.
C32_OneCurrentBucket ==
    /\ []currentInRing
    /\ [][incOnlyCurrent /\ resetZeroes]_vars

\* An error was recorded in a current bucket other than bucket 0 while another
\* bucket holds samples, in a call that moved no state.
C32_Witness ==
    /\ op = "Run"
    /\ last.stPre = last.stExec /\ last.stExec = last.stPost
    /\ last.err # Nil
    /\ recorder.currentBucket # 0
    /\ \E i \in DOMAIN recorder.window :
          i # recorder.currentBucket /\ recorder.window[i].total > 0

\* C33: a rotation never indexes outside the ring: for every bucket quantity
\* N >= 1, with a non-zero bucket duration, and after any sequence of resets and
\* rotations, 0 <= nextIndexToReplace < N holds whenever a rotation uses it to
\* replace a bucket; no rotation panics.
C33_RotationInRange ==
    /\ ~crashed
    /\ op = "Slide" => recorder.currentBucket \in 0..(recorder.windowSize - 1)

\* A call's outcome enters the window while the breaker is half-open.
countedInHalfOpen(p) == pc[p] = "inc" /\ pc'[p] = "postGet" /\ state = stateHalfOpen

\* C34: the breaker moves from half-open to open only if a call that was
\* delegated to the inner runner while the breaker was half-open returned an
\* error; the outcome of a call rejected in open state, or executed under an
\* earlier state, is never counted in the half-open window and never causes
\* the transition, for any interleaving of concurrent Run calls and rotations.
C34_HalfOpenTripsOnItsOwnCalls ==
    [][/\ (state = stateHalfOpen /\ state' = stateOpen) => last.hoErr
       /\ \A p \in Procs : countedInHalfOpen(p) => loc[p].exec = stateHalfOpen]_vars

\* C35: the breaker does not stay half-open once the probes are done: after
\* SuccessfulRequiredOnHalfOpen calls, one after another, have run to
\* completion in half-open state, the breaker has left half-open for closed or
\* open, also when the window rotates between those calls.
C35_ProbesDecide ==
    last.hoCalls >= cfg.SuccessfulRequiredOnHalfOpen => state # stateHalfOpen

\* The same without a rotation since the breaker became half-open.
ProbesDecideInOneWindow ==
    (last.hoCalls >= cfg.SuccessfulRequiredOnHalfOpen /\ op = "Run"
        /\ totalRequests(recorder) >= last.hoCalls)
    => state # stateHalfOpen

====
